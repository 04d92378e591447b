------------------------- MODULE RegistrySelection -------------------------
(***************************************************************************)
(* Which images of a remote registry become catalog entries: package       *)
(* internal/registry, selection.go.                                        *)
(*                                                                         *)
(* A listed image is a record of its repository, its tag and the time it   *)
(* was pushed.  A pattern is the set of the names it matches.              *)
(***************************************************************************)
EXTENDS Integers, Sequences, FiniteSets, SequencesExt

\* A Selection: include and exclude are matched against repositories, patterns
\* against tags, and latest is the tag mode.
Selections(Repos, Tags) ==
  [include : SUBSET SUBSET Repos, exclude : SUBSET SUBSET Repos,
   latest : BOOLEAN, patterns : SUBSET SUBSET Tags, limit : Nat]

\* Mutant of repositoryMatches: a broad include beats an exclusion.
repositoryMatchesIncludeFirst(repo, sel) ==
  \/ \E p \in sel.include : repo \in p
  \/ sel.include = {} /\ \A p \in sel.exclude : repo \notin p

repositoryMatches(repo, sel) ==
  /\ \A p \in sel.exclude : repo \notin p
  /\ sel.include # {} => \E p \in sel.include : repo \in p

tagMatches(tag, patterns) == \E p \in patterns : tag \in p

\* slices.SortFunc; listings come in any order, so it does not matter how
\* images pushed at one time are sorted.
NewestFirst(images) == SortSeq(images, LAMBDA a, b : a.pushed >= b.pushed)

selectTags(images, sel) ==
  LET Matching(image) == sel.latest \/ tagMatches(image.tag, sel.patterns)
      sorted == NewestFirst(SelectSeq(images, Matching))
      limit  == IF sel.limit <= 0 THEN 1 ELSE sel.limit
  IN  IF Len(sorted) > limit THEN SubSeq(sorted, 1, limit) ELSE sorted

\* The repositories in the order in which they first appear.
Order(images) ==
  LET First(k) == \A j \in 1 .. k - 1 : images[j].repo # images[k].repo
      firsts   == SelectSeq([k \in DOMAIN images |-> k], First)
  IN  [k \in DOMAIN firsts |-> images[firsts[k]].repo]

Select(images, sel) ==
  LET Surviving(image) == repositoryMatches(image.repo, sel)
      byRepo(repo) == LET Of(image) == Surviving(image) /\ image.repo = repo
                      IN  SelectSeq(images, Of)
      order == Order(SelectSeq(images, Surviving))
  IN  FlattenSeq([k \in DOMAIN order |-> selectTags(byRepo(order[k]), sel)])

=============================================================================
