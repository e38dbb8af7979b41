------------------------------ MODULE MCRunner ------------------------------
(* Instances of Runner for TLC. *)
EXTENDS RunnerProperties, TLC

CONSTANTS c1, c2, p1, fileA

plain == [kind |-> "plain", mode |-> "none", path |-> Nil]
absent == [plain EXCEPT !.kind = "absent"]
render == [plain EXCEPT !.kind = "render"]
save(f) == [plain EXCEPT !.mode = "snapshot", !.path = f]
load(f) == [plain EXCEPT !.mode = "restore", !.path = f]

Pipeline(s, q, p, r, o) == <<s, q, p, r, o>>

OnePost == {p1}
TwoCallers == {c1, c2}
OneFile == {fileA}

(* Files that an earlier life of the process, or an operator, left behind: *)
(* a digest with its summary, posts only, no posts, and nothing but a      *)
(* summary, which was written about none.                                  *)
LeftFiles ==
  {Missing,
   [blocks |-> {p1}, summary |-> [of |-> {p1}]],
   [blocks |-> {p1}, summary |-> Nil],
   [blocks |-> Nil, summary |-> [of |-> {}]],
   [blocks |-> {}, summary |-> Nil]}

(* Flows with a restore at every place where one may stand, in front of,  *)
(* behind and between other processors, or twice in a stage.              *)
RestoringFlows ==
  LET A == fileA IN
  {Pipeline(<<load(A), plain>>, <<plain>>, <<plain>>, <<plain>>, <<plain>>),
   Pipeline(<<plain, load(A)>>, <<plain>>, <<>>, <<>>, <<plain, plain>>),
   Pipeline(<<plain, load(A), absent, load(A), plain>>, <<>>, <<>>, <<plain>>, <<plain>>),
   Pipeline(<<plain>>, <<plain, load(A), plain>>, <<plain>>, <<plain>>, <<plain>>),
   Pipeline(<<plain>>, <<load(A), plain, load(A), plain>>, <<plain>>, <<>>, <<plain>>),
   Pipeline(<<plain>>, <<plain>>, <<plain, load(A), plain>>, <<plain, render>>, <<plain>>),
   Pipeline(<<plain>>, <<plain>>, <<plain>>, <<plain, load(A), render>>, <<plain>>),
   Pipeline(<<plain>>, <<plain>>, <<plain>>, <<load(A), plain>>, <<plain, plain>>),
   Pipeline(<<plain>>, <<>>, <<plain>>, <<plain>>, <<plain, load(A), plain>>),
   Pipeline(<<plain>>, <<>>, <<>>, <<plain>>, <<load(A), plain, absent, plain>>),
   Pipeline(<<plain>>, <<load(A)>>, <<plain>>, <<load(A)>>, <<plain, load(A)>>)}

(* Flows without a restore, one that saves behind every stage. *)
PlainFlows ==
  LET A == fileA IN
  {Pipeline(<<plain, absent, plain>>, <<plain, plain>>, <<plain>>, <<plain, render>>, <<plain, plain>>),
   Pipeline(<<save(A)>>, <<save(A)>>, <<save(A)>>, <<save(A)>>, <<save(A), plain>>),
   Pipeline(<<plain>>, <<absent>>, <<>>, <<render>>, <<plain>>)}

(* One caller runs one of these, and the other has nothing to do.          *)
Nothing == Pipeline(<<absent>>, <<>>, <<>>, <<>>, <<absent>>)
OneFlow == {(c1 :> f) @@ (c2 :> Nothing) : f \in RestoringFlows \cup PlainFlows}

(* Two runs at a time on one file: savers of the same file, and a restorer. *)
EarlySaver == Pipeline(<<save(fileA)>>, <<plain>>, <<>>, <<>>, <<plain>>)
LateSaver == Pipeline(<<plain>>, <<>>, <<save(fileA)>>, <<>>, <<plain>>)
Restorer == Pipeline(<<plain>>, <<load(fileA)>>, <<>>, <<>>, <<plain>>)
SharedFile ==
  {(c1 :> p[1]) @@ (c2 :> p[2]) :
     p \in {EarlySaver, LateSaver} \X {LateSaver, Restorer}
             \cup {<<EarlySaver, EarlySaver>>}}

AllSetups == OneFlow \cup SharedFile
=============================================================================
