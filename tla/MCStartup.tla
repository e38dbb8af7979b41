------------------------------ MODULE MCStartup ------------------------------
(* Instances of Startup for TLC. *)
EXTENDS Startup

CONSTANTS a, flow, fileA

Words == {a, flow}
OneFile == {fileA}

no == [snapshot |-> FALSE, restore |-> FALSE, path |-> Nil]
saved == [snapshot |-> TRUE, restore |-> FALSE, path |-> fileA]
restored == [snapshot |-> FALSE, restore |-> TRUE, path |-> fileA]
part(fate, snap) == [fate |-> fate, snap |-> snap]
fine == part("ok", no)
entry(s, set) ==
  [v \in ToSet(Variants[s]) |-> IF v \in DOMAIN set THEN set[v] ELSE Nil]
email(p) == entry(Output, [email |-> p])

Plain ==
  [words |-> <<a>>, named |-> TRUE, readable |-> TRUE, templates |-> TRUE,
   triggers |-> <<"ok">>, store |-> "none",
   sources |-> <<entry(Source, [rss |-> fine])>>, quality |-> <<>>, post_summary |-> <<>>,
   run_summary |-> <<>>, output |-> <<email(fine)>>]

Stored == [Plain EXCEPT !.store = "ok"]
Numbered == [Plain EXCEPT !.words = <<a, 1>>]
NamelessStored == [Stored EXCEPT !.words = <<>>]

(* Every section filled, two sources in one entry, two variants where one  *)
(* is built, a saving and a restoring processor.                           *)
Rich ==
  [Stored EXCEPT
     !.words = <<a, 1>>, !.triggers = <<"ok", "ok">>,
     !.sources = <<entry(Source, [arxiv |-> part("ok", saved), reddit |-> fine]),
                   entry(Source, [scrape |-> fine])>>,
     !.quality = <<entry(Quality, [llm |-> fine, rule |-> fine])>>,
     !.post_summary = <<entry(PostSummary, [llm |-> fine]),
                        entry(PostSummary, [markdown |-> fine])>>,
     !.run_summary = <<entry(RunSummary, [markdown |-> part("ok", restored)])>>]

(* Documents with a fault in them, most of which are rejected. *)
Faulty ==
  {[Plain EXCEPT !.readable = FALSE], [Plain EXCEPT !.templates = FALSE],
   [Plain EXCEPT !.named = FALSE], [Stored EXCEPT !.store = "broken"],
   [Stored EXCEPT !.store = "rejected"], [Plain EXCEPT !.triggers = <<"broken">>],
   [Plain EXCEPT !.output = <<>>],
   [Plain EXCEPT !.quality = <<entry(Quality, [rule |-> part("broken", saved)])>>],
   [Plain EXCEPT !.run_summary = <<entry(RunSummary, <<>>)>>],
   [Plain EXCEPT !.sources =
      <<entry(Source, [rss |-> part("ok", [saved EXCEPT !.path = Nil])])>>],
   [Plain EXCEPT !.output = <<email(part("ok", [saved EXCEPT !.restore = TRUE]))>>]}

Sound == {Plain, Stored, Numbered, NamelessStored, Rich}
All == Sound \cup Faulty
=============================================================================
