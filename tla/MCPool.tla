------------------------------- MODULE MCPool -------------------------------
(***************************************************************************)
(* Three senders, each with a commitment and a reveal of its own; sender 2 *)
(* also copies the first hash, for a higher fee.  Sender 1 uses the relay. *)
(***************************************************************************)
EXTENDS TxPool

c11 == [from |-> 1, hash |-> 1, fee |-> 1]
c21 == [from |-> 2, hash |-> 1, fee |-> 2]
c22 == [from |-> 2, hash |-> 2, fee |-> 1]
c33 == [from |-> 3, hash |-> 3, fee |-> 1]
r11 == [from |-> 1, hash |-> 1, fee |-> 1, expense |-> 1]
r22 == [from |-> 2, hash |-> 2, fee |-> 2, expense |-> 2]
r33 == [from |-> 3, hash |-> 3, fee |-> 3, expense |-> 2]

MCCommitments == {c11, c21, c22, c33}

MCReveals == {r11, r22, r33}

MCHanded == {c11, r11}

MCGossiped == {c21, r22, r33}

MCMined ==
    { [commits |-> {}, reveals |-> {}], [commits |-> {c11, c22, c33}, reveals |-> {}],
      [commits |-> {}, reveals |-> {r11}] }
=============================================================================
