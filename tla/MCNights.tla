------------------------------ MODULE MCNights ------------------------------
(* Two profiles and two accounts on a short event: doors and a visit on the *)
(* first night; a trail of two clues and one hidden spot on the second.     *)
EXTENDS SietchNights, TLC

CONSTANTS p1, p2, a1, a2

Spot(id, night, kind, seq, award, bonus) ==
    [id |-> id, night |-> night, kind |-> kind, seq |-> seq, award |-> award, bonus |-> bonus]

MCSpots == {Spot("door", 1, "porch", 0, 2, 0), Spot("gate", 1, "porch", 0, 2, 0),
            Spot("well", 2, "clue", 1, 1, 0), Spot("mast", 2, "clue", 2, 1, 0),
            Spot("bone", 2, "seek", 0, 1, 1)}

Symmetry == Permutations({p1, p2})
=============================================================================
