SPECIFICATION Pca_Spec
CONSTANTS
    t1 = t1
    t2 = t2
    Threads = {t1, t2}
    Pins = {0, 1}
    PIN_ALL = 2
    Owns <- OwnsMixed
    Nibble = 2
    Byte = 4
    Freqs = {9}
    FREQ_MIN = 4
    FREQ_MAX = 8
    Prescale <- MCPrescale
 
INVARIANT SwitchedAsAsked
CHECK_DEADLOCK FALSE
