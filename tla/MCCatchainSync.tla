---------------------------- MODULE MCCatchainSync ----------------------------
(* The member "a" behind the others. *)
EXTENDS CatchainSync, TLC

s1 == <<"s", 1, 1>>
s2 == <<"s", 2, 1>>
t1 == <<"t", 1, 1>>
f1 == <<"f", 1, 1>>

\* The source s has built on a block of f, which has forked, and on t.
Web == s1 :> <<f1>> @@ s2 :> <<s1, t1>> @@ t1 :> <<>> @@ f1 :> <<>>

\* Two peers answer; t lags behind as well and has not noticed the fork.
WebHas == "s" :> {s1, s2, t1, f1} @@ "t" :> {t1}
WebProof == "s" :> {"f"} @@ "t" :> {}
===============================================================================
