------------------------------ MODULE Stories ------------------------------
(* news/consolidate.py: a batch of articles becomes stories.  Each article,  *)
(* oldest first, joins the group of the strongest match it has with any      *)
(* article placed before it, or starts a group; a story counts the sources   *)
(* that reported it in their own words.                                      *)
(*                                                                            *)
(* A headline is a value, the one that normalises to nothing among them, and *)
(* so is the normalised text; how alike two different headlines are is a     *)
(* percentage that depends on which of them is read first.                   *)
EXTENDS Integers, Sequences, FiniteSets, FiniteSetsExt

CONSTANTS
  Batches,        \* sets of articles that may be consolidated
  NoTime,         \* the source stated no publication time
  NoTitle,        \* the headline that normalises to nothing
  Likeness(_, _), \* SequenceMatcher's ratio, or the overlap of the words if more
  TitleKeyWindow, \* TITLE_KEY_WINDOW_S
  NearWindow,     \* NEAR_TITLE_WINDOW_S
  EntityWindow,   \* ENTITY_WINDOW_S
  NearTitle,      \* NEAR_TITLE_THRESHOLD
  TitleFloor,     \* ENTITY_TITLE_FLOOR
  EntityOverlap,  \* ENTITY_OVERLAP_THRESHOLD, in percent
  SameHeadline    \* SYNDICATION_TITLE_THRESHOLD

ASSUME StoriesAssumption ==
  /\ {TitleKeyWindow, NearWindow, EntityWindow, NearTitle, TitleFloor, EntityOverlap,
      SameHeadline} \subseteq Nat
  /\ NoTime \notin Int
  /\ \A b \in Batches : \A x \in b :
       x.published \in Int \cup {NoTime} /\ x.available \in Int /\ x.id \in Int
  /\ \A b \in Batches : \A x, y \in b : Likeness(x.title, y.title) \in 0 .. 100

VARIABLES batch,   \* the articles
          placed,  \* those placed so far
          groups   \* sequences of articles, and the match that brought each

storyVars == <<batch, placed, groups>>

-----------------------------------------------------------------------------
(* Matching                                                                  *)

Apart(m, n) == IF m > n THEN m - n ELSE n - m

\* dedupe.title_similarity of m, read first, and n, in percent.
Similarity(m, n) ==
  IF NoTitle \in {m, n} THEN 0 ELSE IF m = n THEN 100 ELSE Likeness(m, n)

\* entities.overlap reaches the threshold; of nothing, it is 0.
SharesEntities(x, y) ==
  LET common == x.entities \cap y.entities
      all == x.entities \cup y.entities
  IN  {} \notin {x.entities, y.entities} /\ 100 * Cardinality(common) >= EntityOverlap * Cardinality(all)

\* _proximity_seconds: publication against publication, or fetch against fetch.
Proximity(x, y) ==
  IF NoTime \notin {x.published, y.published} THEN Apart(x.published, y.published)
  ELSE Apart(x.available, y.available)

\* _MATCH_ORDER, strongest first.
MatchOrder == <<"source_item", "canonical_url", "content_hash",
                "title_key", "near_title", "entity_time">>

\* What each rule of _edge asks for.
Matches(rule, x, y) ==
  CASE rule = "source_item"   -> x.item # "" /\ x.source = y.source /\ x.item = y.item
    [] rule = "canonical_url" -> x.url # "" /\ x.url = y.url
    [] rule = "content_hash"  -> x.text = y.text
    [] rule = "title_key"     -> /\ x.title = y.title /\ x.title # NoTitle
                                 /\ Proximity(x, y) <= TitleKeyWindow
    [] rule = "near_title"    -> /\ Similarity(x.title, y.title) >= NearTitle
                                 /\ Proximity(x, y) <= NearWindow
    [] OTHER                  -> /\ Similarity(x.title, y.title) >= TitleFloor
                                 /\ Proximity(x, y) <= EntityWindow
                                 /\ SharesEntities(x, y)

\* _edge: the strongest rule that holds, as its place in the order.
Edges(x, y) == {k \in DOMAIN MatchOrder : Matches(MatchOrder[k], x, y)}
BestEdge(x, y) == Min(Edges(x, y))

\* _sort_key: the publication time, or the fetch, then the fetch, then the id.
StoryTime(x) == IF x.published = NoTime THEN x.available ELSE x.published
OlderArticle(x, y) ==
  \/ StoryTime(x) < StoryTime(y)
  \/ StoryTime(x) = StoryTime(y) /\ (x.available < y.available
                                      \/ (x.available = y.available /\ x.id < y.id))

-----------------------------------------------------------------------------
(* consolidate                                                               *)

StoriesInit == batch \in Batches /\ placed = {} /\ groups = <<>>

Linked(x) == {g \in DOMAIN groups : \E k \in DOMAIN groups[g] : Edges(x, groups[g][k].article) # {}}
Strongest(x, g) ==
  Min({BestEdge(x, groups[g][k].article) :
         k \in {j \in DOMAIN groups[g] : Edges(x, groups[g][j].article) # {}}})

JoinedGroup_First(x) == Min(Linked(x))

\* The group of the strongest match, the first of equals.
JoinedGroup(x) ==
  Min({g \in Linked(x) : \A h \in Linked(x) : Strongest(x, g) <= Strongest(x, h)})

\* The next article by _sort_key starts a group, or joins one.
Place ==
  \E x \in batch \ placed :
    /\ \A y \in batch \ placed : y = x \/ OlderArticle(x, y)
    /\ placed' = placed \cup {x}
    /\ groups' = IF Linked(x) = {} THEN Append(groups, <<[article |-> x, match |-> 0]>>)
                 ELSE LET g == JoinedGroup(x)
                      IN  [groups EXCEPT ![g] =
                             Append(@, [article |-> x, match |-> Strongest(x, g)])]
    /\ UNCHANGED batch

StoriesNext == Place

StoriesSpec == StoriesInit /\ [][StoriesNext]_storyVars

-----------------------------------------------------------------------------
(* _build_event                                                              *)

\* _independence: the k-th member repeats the text of an earlier one, or the
\* headline of an earlier one that did not.
Verbatim(g, k) ==
  LET Copy[j \in DOMAIN g] ==
        \/ \E i \in 1 .. j - 1 : g[i].article.text = g[j].article.text
        \/ \E i \in 1 .. j - 1 :
             /\ ~Copy[i]
             /\ Similarity(g[j].article.title, g[i].article.title) >= SameHeadline
  IN  Copy[k]

Originals(g) == {g[k].article : k \in {j \in DOMAIN g : ~Verbatim(g, j)}}

\* _conflicting: originals that say the opposite of one another.
Conflicts(g) == \E x, y \in Originals(g) : x.says = "imposed" /\ y.says = "lifted"

\* The columns of the story: the counts, the times and the weakest link.
StoryEvent(g) ==
  LET articles == {g[k].article : k \in DOMAIN g}
      published == {x.published : x \in articles} \ {NoTime}
  IN  [primary |-> g[1].article,
       weakest |-> Max({g[k].match : k \in DOMAIN g}),
       independent |-> Cardinality({x.source : x \in Originals(g)}),
       copies |-> Len(g) - Cardinality(Originals(g)),
       conflicting |-> Conflicts(g),
       firstPublished |-> IF published = {} THEN NoTime ELSE Min(published),
       available |-> Min({x.available : x \in articles}),
       updated |-> Max({x.available : x \in articles})]

-----------------------------------------------------------------------------
(* Properties                                                                *)

Copies(x, y) == x.text = y.text \/ Similarity(x.title, y.title) >= SameHeadline

\* A source's own updates of one item are never told as two stories, whatever
\* other articles they also resemble ("Nothing can beat the source's own
\* identity claim"), and of the articles a story counts as independent none has
\* an earlier one's text or headline, whatever order they were placed in
\* ("twenty republications of one wire story count as one source").
StoriesCountOnce ==
  \A g \in DOMAIN groups :
    /\ \A h \in DOMAIN groups \ {g} : \A k \in DOMAIN groups[g], l \in DOMAIN groups[h] :
         ~Matches("source_item", groups[g][k].article, groups[h][l].article)
    /\ StoryEvent(groups[g]).independent <=
         Cardinality({x \in Originals(groups[g]) :
                        \A y \in Originals(groups[g]) : OlderArticle(y, x) => ~Copies(x, y)})

=============================================================================
