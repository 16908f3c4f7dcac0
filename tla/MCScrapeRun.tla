----------------------------- MODULE MCScrapeRun -----------------------------
(* Small instances of ScrapeRun: two runs over pages of two cards. *)
EXTENDS ScrapeRun

CONSTANTS full, incr, a, b, c, d

TwoRuns == {full, incr}
OneRun == {incr}
Modes == [r \in Runs |-> IF r = full THEN "full" ELSE "incremental"]
Four == {a, b, c, d}
NoneBad == {}
OneBad == {d}

\* a and c are new since b was stored, and the searches order them differently; d may
\* be published.
Newest == [s \in 1 .. Searches |-> IF s = 1 THEN <<a, c, b>> ELSE <<c, a>>]
Default == [s \in 1 .. Searches |-> IF s = 1 THEN <<b, a, c>> ELSE <<c, a>>]
Feed == [o \in Orders |-> IF o = "full" THEN Default ELSE Newest]
OldRows == {b}

Budget(publish, delist, rerank, refuse, raise, fault, crash) ==
  [e \in EnvEvents |->
     CASE e = "publish" -> publish [] e = "delist" -> delist [] e = "rerank" -> rerank
       [] e = "refuse" -> refuse [] e = "raise" -> raise [] e = "fault" -> fault [] e = "crash" -> crash]

Everything == Budget(1, 1, 1, 1, 1, 2, 1)
PublishOnly == Budget(1, 0, 0, 0, 0, 0, 0)
=============================================================================
