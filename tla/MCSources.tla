------------------------------ MODULE MCSources -----------------------------
(* Instances of Sources for TLC. *)
EXTENDS Sources

CONSTANTS a, b, f1, f2, f3

Ids == {a, b}
OneId == {a}
Two == {f1, f2}
Three == {f1, f2, f3}

Source(k, n, m, s) == [kind |-> k, pages |-> n, limit |-> m, store |-> s]

Feeds == Source("rss", 2, 0, TRUE)
Subreddit == Source("reddit", 1, 0, TRUE)
Papers == Source("arxiv", 1, 0, TRUE)
PapersUnstored == [Papers EXCEPT !.store = FALSE]
Pages == Source("scrape", 2, 2, TRUE)
FirstPost == Source("scrape", 2, 1, TRUE)

(* Two triggers of one flow, or two documents with one database. *)
Pairs ==
  {<<Feeds, Feeds>>, <<Pages, Pages>>, <<Subreddit, Papers>>,
   <<Feeds, Subreddit>>, <<FirstPost, FirstPost>>, <<Papers, PapersUnstored>>}
TwoSources == {f1 :> p[1] @@ f2 :> p[2] : p \in Pairs}
ThreeSearches == {f1 :> Papers @@ f2 :> Papers @@ f3 :> Papers}

(* New posts, one listed twice, one without an identifier. *)
Lists == {<<a, a>>, <<NoId, b>>}
ShortLists == {<<a>>}

OneAtATime == [fails |-> FALSE, overlap |-> FALSE]
Reliable == {[fails |-> FALSE, overlap |-> TRUE]}
AllWorlds == {OneAtATime, [fails |-> TRUE, overlap |-> TRUE]}
=============================================================================
