------------------------------ MODULE MCDeploy ------------------------------
(***************************************************************************)
(* Instances of Deploy for TLC: who deploys what to whom.                  *)
(***************************************************************************)
EXTENDS Deploy, TLC

CONSTANTS n1, n2, n3, r1, r2

\* One renter, one provider, one request.
OneSource == r1 :> n1
OneTarget == r1 :> n2
OneBundle == r1 :> "a.zip"
OneProject == r1 :> "a"

\* The same bundle twice from one renter to one provider.
TwiceSource == r1 :> n1 @@ r2 :> n1
TwiceTarget == r1 :> n2 @@ r2 :> n2
TwiceBundle == r1 :> "a.zip" @@ r2 :> "a.zip"
TwiceProject == r1 :> "a" @@ r2 :> "a"

\* Either request of this instance can stand for the other.
TwiceSymmetry == Permutations({r1, r2})

\* Two renters whose bundles normalise to one compose project.
RivalSource == r1 :> n1 @@ r2 :> n3
RivalTarget == r1 :> n2 @@ r2 :> n2
RivalBundle == r1 :> "a.zip" @@ r2 :> "A.tar"
RivalProject == r1 :> "a" @@ r2 :> "a"

\* Two nodes that deploy to each other.
MutualSource == r1 :> n1 @@ r2 :> n2
MutualTarget == r1 :> n2 @@ r2 :> n1
MutualBundle == r1 :> "a.zip" @@ r2 :> "a.zip"
MutualProject == r1 :> "a" @@ r2 :> "a"
=============================================================================
