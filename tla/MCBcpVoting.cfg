SPECIFICATION Spec
CONSTANTS
    n1 = n1
    n2 = n2
    n3 = n3
    n4 = n4
    c1 = c1
    c2 = c2
    Validators <- MCValidators
    Honest <- MCHonest
    Candidates <- MCCandidates
    Attempts = {1, 2}
    Quorums <- MCQuorums
SYMMETRY MCSymmetry
INVARIANTS
    IInv
    Agreement
