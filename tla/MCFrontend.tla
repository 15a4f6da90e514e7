-------------------------- MODULE MCFrontend --------------------------
(* Model-checking instances of the pages of an admin. *)
EXTENDS Frontend

\* What rows hold: two states and two notes; and at first: two different rows, or one.
RowContents == [state : States, note : Notes]
SomeRows == {[state |-> "open", note |-> "plain"], [state |-> "closed", note |-> "other"]}
SomeTables ==
    LET first == CHOOSE r \in Rows : TRUE
        open == [state |-> "open", note |-> "plain"]
        closed == [state |-> "closed", note |-> "other"]
    IN  {[r \in Rows |-> IF r = first THEN open ELSE x] : x \in {closed, NoRow}}
SomeContent == CHOOSE v \in RowContents : TRUE
=============================================================================
