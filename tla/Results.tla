------------------------------ MODULE Results ------------------------------
(***************************************************************************)
(* A Go result (value, error): [err, val], where err is "none" or says     *)
(* why there is no val.                                                    *)
(***************************************************************************)
EXTENDS Sequences, FiniteSetsExt

Ok(x) == [err |-> "none", val |-> x]
Bad(reason) == [err |-> reason]

\* What follows a call that may fail: its error is returned as it is.
Then(r, Rest(_)) == IF r.err = "none" THEN Rest(r.val) ELSE r

\* The loops that append to a slice until one turn fails.
Failing(results) == {i \in DOMAIN results : results[i].err # "none"}
\* (With an empty tail TLC makes a tuple of it, with its elements evaluated once.)
Values(results) == [i \in DOMAIN results |-> results[i].val] \o <<>>
All(results) ==
  IF Failing(results) = {} THEN Ok(Values(results)) ELSE results[Min(Failing(results))]
=============================================================================
