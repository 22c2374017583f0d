\* Two processes open the log, create or read its key and append; the log rotates
\* at two lines, one kind of fault may happen, the watchdog verifies at any time.
SPECIFICATION Spec
CONSTANTS
    Procs = {p1, p2}
    OldKey = OldKey
    EmptyFile = EmptyFile
    NoFile = NoFile
    MaxLines = 2
    MaxAppends = 3
    MaxFaults = 1
INVARIANTS KeyAgreement ChainLinked AckedKept VerdictFaithful AlarmJustified
SYMMETRY Symmetry
CHECK_DEADLOCK FALSE
