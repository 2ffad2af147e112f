---------------------------- MODULE MCBundleStore ----------------------------
(***************************************************************************)
(* An instance of BundleStore for TLC.  A name with a letter that          *)
(* safeFileName replaces is stored under the clean one.                    *)
(***************************************************************************)
EXTENDS BundleStore, TLC

CONSTANTS u1, u2, d1, long, short, twin, other, broken

Names == {"a_.zip", "a+.zip", "b.zip"}
Cleaned == "a_.zip" :> "a_.zip" @@ "a+.zip" :> "a_.zip" @@ "b.zip" :> "b.zip"

\* Two uploads of one bundle: one sends it under two names that are cleaned
\* to one, the other a shorter version that is followed by a broken file.
MCFile == {long, short, twin, other, broken}
MCFiles == u1 :> <<twin, other, long>> @@ u2 :> <<short, broken>>
MCNameOf == long :> "a_.zip" @@ short :> "a+.zip" @@ twin :> "a+.zip" @@ other :> "b.zip" @@ broken :> "b.zip"
MCSize == long :> 2 @@ short :> 1 @@ twin :> 1 @@ other :> 1 @@ broken :> 1
MCDecodable == {long, short, twin, other}
=============================================================================
