-------------------------------- MODULE Wiki --------------------------------
(***************************************************************************)
(* The knowledge base of markdown pages (code/wiki.py): one page for each  *)
(* community and an index, regenerated incrementally against a manifest of *)
(* digests.  The graph changes between two runs, a run may die between two *)
(* writes or inside one, and somebody may edit a page or delete it.        *)
(***************************************************************************)
EXTENDS Naturals, Sequences, FiniteSetsExt

CONSTANTS MaxWikiRuns, MaxWikiChanges, MaxWikiDeaths, MaxWikiEdits   \* bounds

VARIABLES clusters,   \* the communities of the graph as it is
          pages,      \* the output directory: page -> content, also torn or somebody else's
          manifest,   \* page -> digest of its content; empty when it cannot be read
          build,      \* the run
          marks,      \* pages edited, or written by a run that died, and not rewritten since
          strays,     \* pages no manifest lists any more
          wear
wikiVars == <<clusters, pages, manifest, build, marks, strays, wear>>

Nothing == [p \in {} |-> 0]
Set(f, p, x) == [q \in DOMAIN f \cup {p} |-> IF q = p THEN x ELSE f[q]]
Drop(f, p) == [q \in DOMAIN f \ {p} |-> f[q]]

(* A graph is the summaries of its communities, in their order: a page     *)
(* shows its community's, and its number; the index, after the communities *)
(* in the order of the names, shows all of them.                           *)
Graphs == {<<1>>, <<2>>, <<1, 1>>}
Index == 9
RenderPage(p, summary) == <<p, summary>>
RenderIndex(g) == <<Index>> \o g
Pages(g) == [p \in DOMAIN g \cup {Index} |-> IF p = Index THEN RenderIndex(g) ELSE RenderPage(p, g[p])]
Torn   == <<>>
Theirs == <<0>>

Resting == [at |-> "rest", incremental |-> TRUE, content |-> Nothing, previous |-> Nothing,
            todo |-> {}, written |-> {}]
Init == /\ clusters \in Graphs /\ pages = Nothing /\ manifest = Nothing
        /\ build = Resting /\ marks = {} /\ strays = {}
        /\ wear = [runs |-> 0, changes |-> 0, deaths |-> 0, edits |-> 0]

-----------------------------------------------------------------------------

Change == \E g \in Graphs \ {clusters} :
    /\ wear.changes < MaxWikiChanges
    /\ clusters' = g /\ wear' = [wear EXCEPT !.changes = @ + 1]
    /\ UNCHANGED <<pages, manifest, build, marks, strays>>
Edits == \E p \in DOMAIN pages, deleted \in BOOLEAN :
    /\ build.at = "rest" /\ wear.edits < MaxWikiEdits
    /\ pages' = IF deleted THEN Drop(pages, p) ELSE Set(pages, p, Theirs)
    /\ marks' = marks \cup {p} /\ wear' = [wear EXCEPT !.edits = @ + 1]
    /\ UNCHANGED <<clusters, manifest, build, strays>>

(* build_wiki: the view is loaded and rendered, then the manifest is read; *)
(* a run that is not incremental takes it for empty.                       *)
LoadManifest(incremental) == IF incremental THEN manifest ELSE Nothing
Begin == \E incremental \in BOOLEAN :
    /\ build.at = "rest" /\ wear.runs < MaxWikiRuns
    /\ build' = [Resting EXCEPT !.at = "page", !.incremental = incremental, !.content = Pages(clusters),
                                !.previous = LoadManifest(incremental),
                                !.todo = DOMAIN Pages(clusters)]
    /\ strays' = IF incremental THEN strays ELSE strays \cup DOMAIN manifest
    /\ wear' = [wear EXCEPT !.runs = @ + 1]
    /\ UNCHANGED <<clusters, pages, manifest, marks>>

(* A page whose digest is the recorded one, and that is there, is left.    *)
Recorded(p) == p \in DOMAIN build.previous /\ build.previous[p] = build.content[p]
Unchanged_WhenListed(p) == p \in DOMAIN build.previous /\ p \in DOMAIN pages
Unchanged(p) == build.incremental /\ Recorded(p) /\ p \in DOMAIN pages
Page == Min(build.todo)
Skip == /\ build.at = "page" /\ build.todo # {} /\ Unchanged(Page)
        /\ build' = [build EXCEPT !.todo = @ \ {Page}]
        /\ UNCHANGED <<clusters, pages, manifest, marks, strays, wear>>
(* write_text truncates, then writes.                                      *)
Truncate == /\ build.at = "page" /\ build.todo # {} /\ ~Unchanged(Page)
            /\ pages' = Set(pages, Page, Torn)
            /\ build' = [build EXCEPT !.at = "fill", !.written = @ \cup {Page}]
            /\ UNCHANGED <<clusters, manifest, marks, strays, wear>>
Fill == /\ build.at = "fill"
        /\ pages' = Set(pages, Page, build.content[Page])
        /\ marks' = marks \ {Page}
        /\ build' = [build EXCEPT !.at = "page", !.todo = @ \ {Page}]
        /\ UNCHANGED <<clusters, manifest, strays, wear>>

(* The pages of the previous manifest that are not written any more go.    *)
Stale_None == {}
Stale == DOMAIN build.previous \ DOMAIN build.content
PagesDone == /\ build.at = "page" /\ build.todo = {}
             /\ build' = [build EXCEPT !.at = "remove", !.todo = Stale]
             /\ UNCHANGED <<clusters, pages, manifest, marks, strays, wear>>
Remove == /\ build.at = "remove" /\ build.todo # {}
          /\ pages' = IF Page \in DOMAIN pages THEN Drop(pages, Page) ELSE pages
          /\ build' = [build EXCEPT !.todo = @ \ {Page}]
          /\ UNCHANGED <<clusters, manifest, marks, strays, wear>>

(* The manifest is truncated and written last; a torn one reads as empty.  *)
TruncateManifest == /\ build.at = "remove" /\ build.todo = {}
                    /\ manifest' = Nothing /\ build' = [build EXCEPT !.at = "manifest"]
                    /\ UNCHANGED <<clusters, pages, marks, strays, wear>>
WriteManifest == /\ build.at = "manifest"
                 /\ manifest' = build.content
                 /\ strays' = strays \ DOMAIN build.content
                 /\ build' = [build EXCEPT !.at = "written"]
                 /\ UNCHANGED <<clusters, pages, marks, wear>>
Return == /\ build.at = "written"
          /\ build' = Resting
          /\ UNCHANGED <<clusters, pages, manifest, marks, strays, wear>>

Dies == /\ build.at # "rest" /\ build.at # "written" /\ wear.deaths < MaxWikiDeaths
        /\ marks' = marks \cup build.written
        /\ strays' = strays \cup build.written \cup (IF build.at = "manifest" THEN DOMAIN pages ELSE {})
        /\ build' = Resting /\ wear' = [wear EXCEPT !.deaths = @ + 1]
        /\ UNCHANGED <<clusters, pages, manifest>>

Next == Change \/ Edits \/ Begin \/ Skip \/ Truncate \/ Fill \/ PagesDone \/ Remove \/ TruncateManifest
        \/ WriteManifest \/ Return \/ Dies

-----------------------------------------------------------------------------

Complete == build.at = "written"
(* After a run every page of the graph it read is there with its content,  *)
(* unless somebody edited it or a run died over it, and even then unless   *)
(* the manifest still records what it ought to hold (wiki.py:13-18).       *)
PagesCurrent ==
    Complete => \A p \in DOMAIN build.content :
        \/ p \in DOMAIN pages /\ pages[p] = build.content[p]
        \/ p \in marks /\ Recorded(p)
(* No page of a community that is gone is left, but for those a dead run   *)
(* wrote, a run that was not incremental lost, or an unreadable manifest.  *)
NoStalePages == Complete => DOMAIN pages \subseteq DOMAIN build.content \cup strays
(* Regenerating what the manifest records writes nothing.                  *)
WritesNothing == /\ Complete /\ build.incremental /\ build.previous = build.content
                 /\ wear.edits = 0 /\ wear.deaths = 0
                 => build.written = {}
=============================================================================
