------------------------------ MODULE MCNews ------------------------------
(* Four articles of two sources; three events and two dimensions.           *)
EXTENDS Stories, Pressure

MCArticle(id, source, item, title, text, entities, published, available) ==
  [id |-> id, source |-> source, item |-> item, url |-> "", text |-> text,
   title |-> title, entities |-> entities, published |-> published,
   available |-> available, says |-> IF title \in {3, 4} THEN "lifted" ELSE "imposed"]

\* Headlines on a line, the further apart the less alike, and a little more
\* alike when the later one is read first.
MCLikeness(m, n) ==
  IF NoTitle \in {m, n} THEN 0
  ELSE 100 - 12 * Apart(m, n) + (IF m > n THEN 7 ELSE 0)

\* Two updates of one item, an hour apart, under any headlines, and two other
\* articles between them, one of which may have copied the other; and none.
MCBatches ==
  {{}} \cup
  {{MCArticle(1, "wire", "a", 0, "t1", {"iran", "usa", "oil"}, 1, 3),
    MCArticle(2, "paper", "", s, "t2", {"iran", "usa"}, 0, 1),
    MCArticle(3, "agency", "", t, x, e, p, 2),
    MCArticle(4, "wire", i, u, "t4", {"iran", "usa", "oil"}, 6, 6)} :
     s \in {0, 1, 2, 4}, t \in {NoTitle, 1, 2, 4}, u \in {0, 2, 3, 4}, x \in {"t2", "t3"},
     e \in {{}, {"iran"}}, p \in {NoTime, 1, 5}, i \in {"a", "b"}}

-----------------------------------------------------------------------------

MCEvent(id, category, sources, usd, gold) ==
  [id |-> id, category |-> category, sources |-> sources, usd |-> usd, gold |-> gold]

MCEvents ==
  {MCEvent(1, "sanctions", 1, 2, 1), MCEvent(2, "sanctions", 3, 1, -1),
   MCEvent(3, "talks", 2, -2, 0)}

\* A family dimension reads one kind of event only; a channel reads all that
\* say something of it.
MCReads(d, e) ==
  IF d = "usd_irt" THEN [score |-> e.usd, confidence |-> 2]
  ELSE IF e.category = "sanctions" THEN [score |-> e.gold, confidence |-> 1]
  ELSE Unread

MCHealth == {<<TRUE>>, <<FALSE>>}

=============================================================================
