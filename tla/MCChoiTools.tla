---------------------------- MODULE MCChoiTools -----------------------------
(***************************************************************************)
(* Two runs of choienc and one of choidec, all at once.  The user's file f *)
(* holds nothing or one unit; f.choi may be there from elsewhere.          *)
(***************************************************************************)
EXTENDS ChoiTools, TLC

MCSuffix == <<".c">>

f  == <<"f">>
g  == <<"g">>
fc == f \o MCSuffix

MCNames == {f, g, fc}

MCEncArgs == [in : {f}, pw : {"p", "q"}] \cup {[in |-> fc, pw |-> "p"]}
MCDecArgs == {[in |-> p[1], out |-> p[2], pw |-> "p", decoy |-> b] :
              p \in {<<f, g>>, <<fc, f>>, <<fc, fc>>}, b \in BOOLEAN}

EncSymmetry == Permutations(Encs)

MCStartFiles == {f :> <<Data("a")>>, f :> <<>>}

(* For the runs on the documentation: every output path is taken already,  *)
(* and choidec is run with passwords that choienc was not.                 *)
TakenFiles == {(f :> <<Data("a")>>) @@ (g :> <<Data("b")>>)}
OneEncArgs == {[in |-> f, pw |-> "p"]}
RightArgs  == {[in |-> fc, out |-> g, pw |-> "p", decoy |-> FALSE]}
WrongArgs  == {[in |-> fc, out |-> g, pw |-> "q", decoy |-> FALSE]}
GuessArgs  == [in : {fc}, out : {g}, pw : {"q", "r"}, decoy : {TRUE}]
=============================================================================
