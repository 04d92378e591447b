------------------------ MODULE MCImageRegistrySync ------------------------
(* Small instances of ImageRegistrySync for TLC. *)
EXTENDS ImageRegistrySync

Image(repo, tag) == [repo |-> repo, tag |-> tag]

\* Two tags of one repository; the third image is synced to the entry of the
\* second, as a/b and a-b are.
ThreeImages == {Image("a", "t1"), Image("a", "t2"), Image("b", "t1")}
TwoNames == [i \in ThreeImages |-> IF i = Image("a", "t1") THEN "n1" ELSE "n2"]

\* The second tag is yet to be pushed.
FirstTags == {[i \in ThreeImages |-> IF i.tag = "t1" THEN 1 ELSE 0]}

OneImage == {Image("a", "t1")}
OnePushed == {[i \in OneImage |-> 1]}
OneName == [i \in OneImage |-> "n1"]

Sync(include, exclude, latest, patterns, limit, prune) ==
  [sel |-> [include |-> include, exclude |-> exclude, latest |-> latest,
            patterns |-> patterns, limit |-> limit],
   prune |-> prune, compiles |-> TRUE]

Newest == Sync({}, {}, TRUE, {}, 1, TRUE)
Pattern == Sync({{"a", "b"}}, {{"b"}}, FALSE, {{"t1"}, {"t2"}}, 2, FALSE)
Broken  == [Newest EXCEPT !.compiles = FALSE]

CatalogSyncs == {Newest, Pattern, Broken}
LoopSyncs == {Newest}

=============================================================================
