---------------------------------- MODULE Ida ----------------------------------
(* Rabin's information dispersal (utils/ida.C): a block becomes fragments any *)
(* m of which give it back, coded in the field of the integers modulo a       *)
(* prime.  Bytes have BYTE values and the arithmetic is unsigned with as many *)
(* bits as four bytes; the code has 256, 65537 and 32 bits.  A string is a    *)
(* sequence of bytes and reads as 0 right past its end.                       *)
EXTENDS Integers, Sequences, SequencesExt

CONSTANTS BYTE, magic

field == BYTE * BYTE + 1
u_long(a) == a % (BYTE ^ 4)

\* invtable of ida-field.C, the inverses of all elements and 0 for 0.
inv == [a \in 0 .. field - 1 |->
           CHOOSE b \in 0 .. field - 1 : (a * b) % field = IF a = 0 THEN 0 ELSE 1]
INV(a) == inv[a]
\* Mutant: the one product that does not fit wraps around.
MUL_wraps(a, b) == u_long(a * b) % field
MUL(a, b) == IF a = field - 1 /\ b = field - 1 THEN 1 ELSE u_long(a * b) % field
DIV(a, b) == MUL(a, INV(b))
ADD(a, b) == u_long(a + b) % field
SUB(a, b) == u_long(u_long(a - b) + field) % field

-------------------------------------------------------------------------------
\* One fragment, with the row v of the matrix that random_getword gave.
gen_frag_(m, in, v) ==
    LET rawlen == Len(in)
        fraglen == (rawlen + 2 * m - 1) \div (2 * m)
        byte(k) == IF k >= rawlen THEN 0 ELSE in[k + 1]
        bi(k, j) == byte(2 * (k * m + j)) * BYTE + byte(2 * (k * m + j) + 1)
        cik(k) == FoldLeft(LAMBDA c, j : ADD(c, MUL(bi(k, j - 1), v[j])), 0, [j \in 1 .. m |-> j])
    IN  <<4 + m + fraglen, rawlen, m>> \o v \o <<fraglen>> \o [k \in 1 .. fraglen |-> cik(k - 1)]

\* Two bytes for a number, or the magic byte and three.
packone(c) ==
    LET c1 == (c \div BYTE) % BYTE
        c2 == c % BYTE
    IN  IF c >= BYTE * BYTE THEN <<magic, (c \div (BYTE * BYTE)) % BYTE, c1, c2>>
        ELSE IF c1 = magic THEN <<magic, 0, c1, c2>>
        ELSE <<c1, c2>>
pack(in) == FlattenSeq([i \in 1 .. in[1] |-> packone(in[i])])
gen_frag(m, in, v) == pack(gen_frag_(m, in, v))

\* The number at inp, and where the next one starts.
unpackone(in, inp) ==
    IF in[inp] # magic THEN [x |-> in[inp] * BYTE + in[inp + 1], next |-> inp + 2]
    ELSE [x |-> (in[inp + 1] * BYTE + in[inp + 2]) * BYTE + in[inp + 3], next |-> inp + 4]
unpack(in) ==
    FoldLeft(LAMBDA s, i : LET u == unpackone(in, s.next)
                           IN  [out |-> Append(s.out, u.x), next |-> u.next],
             [out |-> <<>>, next |-> 1],
             [i \in 1 .. unpackone(in, 1).x |-> i]).out

-------------------------------------------------------------------------------
\* Gauss-Jordan elimination of the matrix with the identity beside it, without
\* exchanging rows; <<>> when a pivot is 0.
minvert(rows, from) ==
    LET identity(r) == [c \in 1 .. rows |-> IF c = r THEN 1 ELSE 0]
        reduce(to, r) ==
            IF to = <<>> THEN <<>> ELSE IF to[r][r] = 0 THEN <<>>
            ELSE LET pivot == [c \in 1 .. 2 * rows |-> DIV(to[r][c], to[r][r])]
                 IN  [r1 \in 1 .. rows |->
                        IF r1 = r THEN pivot
                        ELSE [c \in 1 .. 2 * rows |->
                                 SUB(to[r1][c], MUL(DIV(to[r1][r], pivot[r]), pivot[c]))]]
        done == FoldLeft(reduce, [r \in 1 .. rows |-> from[r] \o identity(r)],
                         [r \in 1 .. rows |-> r])
    IN  [r \in DOMAIN done |-> SubSeq(done[r], rows + 1, 2 * rows)]

drop(frags, i) == RemoveAt(frags, i)

\* The block if it comes out; an overrun when rows of the matrix are read that
\* are not there, because the fragment after a dropped one was passed over.
Fails == [ok |-> FALSE, overrun |-> FALSE, out |-> <<>>]
reconstruct(f) ==
    LET first == unpack(f[1])
        rawlen == first[2]
        m == first[3]
        row(s, i) ==
            LET in == unpack(s.frags[i])
                blocksize == in[4 + m]
            IN  IF \/ in[1] < m + 4 \/ in[2] # rawlen \/ in[3] # m
                   \/ s.a # <<>> /\ s.blocksize # blocksize
                THEN [s EXCEPT !.frags = drop(@, i)]
                ELSE [s EXCEPT !.a = Append(@, SubSeq(in, 4, 3 + m)),
                               !.d = Append(@, SubSeq(in, 5 + m, in[1])),
                               !.blocksize = blocksize]
        s == FoldLeft(row, [frags |-> f, a |-> <<>>, d |-> <<>>, blocksize |-> 0],
                      [i \in 1 .. m |-> i])
        decoded(a_inv, p, i) ==
            FoldLeft(LAMBDA b, j : ADD(b, MUL(s.d[j][p], a_inv[i][j])), 0, [j \in 1 .. m |-> j])
        bytes(a_inv) == FlattenSeq(FlattenSeq([p \in 1 .. s.blocksize |->
                            [i \in 1 .. m |-> <<decoded(a_inv, p, i) \div BYTE,
                                                decoded(a_inv, p, i) % BYTE>>]]))
    IN  IF f = <<>> THEN Fails
        ELSE IF first[1] < m + 4 \/ Len(f) < m THEN Fails
        ELSE IF Len(s.frags) < m THEN Fails
        ELSE IF Len(s.a) < m THEN [Fails EXCEPT !.overrun = TRUE]
        ELSE LET a_inv == minvert(m, s.a)
             IN  IF a_inv = <<>> THEN Fails
                 ELSE [Fails EXCEPT !.ok = TRUE, !.out = SubSeq(bytes(a_inv), 1, rawlen)]

-------------------------------------------------------------------------------
\* m fragments of a block give the block back, or nothing when the matrix has a
\* pivot that is 0; a fragment survives packing, though its numbers may look
\* like the magic byte; too few give nothing, and while all fragments are of the
\* same block reconstruct does not read past its matrix.
IdaRight(in, m, vs) ==
    \E frags \in {[i \in DOMAIN vs |-> gen_frag(m, in, vs[i])]} :
    \E out \in {reconstruct(frags)} :
        /\ \A i \in DOMAIN vs : unpack(frags[i]) = gen_frag_(m, in, vs[i])
        /\ out.ok = (Len(vs) >= m /\ minvert(m, SubSeq(vs, 1, m)) # <<>>)
        /\ out.ok => out.out = in
        /\ ~out.overrun
\* Without a 0 among the pivots there is an inverse, and it is one.
MatrixRight(m, a) ==
    \E b \in {minvert(m, a)} :
        /\ b # <<>> => \A r, c \in 1 .. m :
              FoldLeft(LAMBDA t, j : ADD(t, MUL(a[r][j], b[j][c])), 0, [j \in 1 .. m |-> j])
                 = IF r = c THEN 1 ELSE 0
        /\ (b = <<>> /\ m = 2) => a[1][1] = 0 \/ (a[1][1] * a[2][2] - a[1][2] * a[2][1]) % field = 0
================================================================================
