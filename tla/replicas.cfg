SPECIFICATION Spec
CONSTANTS
    NTAGS = 2
    NDOCS = 2
    MAXREPLICAS = 2
    Modes = {"P", "I", "S"}
PROPERTY ReplicasStored
