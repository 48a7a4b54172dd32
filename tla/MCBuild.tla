-------------------------------- MODULE MCBuild --------------------------------
(***************************************************************************)
(* One or two targets, two firmwares, one or two states of the checkout;   *)
(* the second state of it has other driver sources than the first.         *)
(***************************************************************************)
EXTENDS Build

MCDriverOf == [c \in Contents |-> IF c = 1 THEN 1 ELSE 2]

\* From the installation of a harvest to the removal of what was derived from
\* the old one.
Windows == {"source", "unlink", "clean"}

OutsideBuildWindows == Steps \ (Windows \union {"idle"})

\* Anywhere but between the copy of the sources and their stamp.
OutsideStamp == Steps \ {"stamp"}

Nowhere == {}

OnlyIdle == {"idle"}

OnlyStamp == {"stamp"}

=============================================================================
