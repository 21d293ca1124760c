------------------------------ MODULE Publisher ------------------------------
(***************************************************************************)
(* Publishing a review on a pull request as one sticky comment             *)
(* (code/pr_comment.py, pr_publish.py, pr_cli.py).  A run renders and      *)
(* checks the body, looks page after page for the comment that carries the *)
(* marker, and updates it or posts a new one; a run is repeated when it    *)
(* fails.  GitHub, the other commenters and the network are external.      *)
(***************************************************************************)
EXTENDS Naturals, Sequences, FiniteSets, SequencesExt

CONSTANTS CIRuns,      \* the runs there are
          PerPage,     \* COMMENTS_PER_PAGE
          MaxPages,    \* MAX_LOOKUP_PAGES
          MaxComments, \* bound on what others write or delete
          MaxLost      \* bound on answers lost or refused

VARIABLES thread,    \* the comments of the pull request, oldest first
          job,       \* each run: where it is, what it found
          events     \* what happened around: [others, lost, disturbed, last]
pubVars == <<thread, job, events>>

(* A body as the checks see it.  Every cell of a rendered one is escaped,  *)
(* so no angle bracket of the code under review reaches it; its size is    *)
(* not bounded, the rows asked for are up to 200 in each table.            *)
Body(html, markers, first, large) ==
    [html |-> html, markers |-> markers, first |-> first, large |-> large]
Escaped(cells) == cells \ {"<", ">"}
Render(cells, large) == Body(Escaped(cells) \cap {"<", ">"} # {}, 1, TRUE, large)
(* validate_comment_body: not too large, no markup, the marker once and on *)
(* the first line.                                                         *)
Valid(b) == ~b.large /\ ~b.html /\ b.markers = 1 /\ b.first
(* What may come as the artifact of the unprivileged stage.                *)
Artifacts == {Render({"name", "<"}, FALSE), Render({"name"}, TRUE),
              Body(TRUE, 1, TRUE, FALSE), Body(FALSE, 2, TRUE, FALSE),
              Body(FALSE, 1, FALSE, FALSE), Body(FALSE, 0, FALSE, FALSE)}

Free == [at |-> "free", page |-> 1, found |-> 0, rev |-> 0, dry |-> FALSE]
Init == /\ thread = <<>> /\ job = [r \in CIRuns |-> Free]
        /\ events = [others |-> 0, lost |-> 0, ids |-> 0, runs |-> 0,
                     overlap |-> FALSE, shifted |-> FALSE, shown |-> 0]
Comment(id, mine, marked, rev) == [id |-> id, mine |-> mine, marked |-> marked, rev |-> rev]
Looking(r) == job[r].at \in {"look", "write"}

-----------------------------------------------------------------------------

(* pr-publish: without --allow-egress, or for a body that fails, nothing   *)
(* is sent.                                                                *)
Publish(r) == \E body \in Artifacts, egress, dry \in BOOLEAN :
    /\ job[r].at = "free" /\ events.runs < Cardinality(CIRuns) + MaxLost
    /\ IF egress /\ Valid(body)
       THEN /\ job' = [job EXCEPT ![r] = [Free EXCEPT !.at = "look", !.rev = events.runs + 1, !.dry = dry]]
            /\ events' = [events EXCEPT !.runs = @ + 1,
                                        !.overlap = @ \/ \E s \in CIRuns : Looking(s)]
       ELSE UNCHANGED <<job, events>>
    /\ UNCHANGED thread

Page(k) == SubSeq(thread, PerPage * (k - 1) + 1,
                  IF PerPage * k < Len(thread) THEN PerPage * k ELSE Len(thread))
LastPage_WhenFull(k) == k = MaxPages \/ Len(Page(k)) <= PerPage
LastPage(k) == k = MaxPages \/ Len(Page(k)) < PerPage
(* find_marked_comment: the first comment on the page that has the marker, *)
(* whoever wrote it.                                                       *)
Look(r) ==
    /\ job[r].at = "look"
    /\ LET page == Page(job[r].page)
           hits == {i \in DOMAIN page : page[i].marked}
       IN  job' = [job EXCEPT ![r] =
              IF hits # {} THEN [job[r] EXCEPT !.at = "write",
                                               !.found = page[CHOOSE i \in hits : \A j \in hits : i <= j].id]
              ELSE IF LastPage(job[r].page) THEN [job[r] EXCEPT !.at = "write"]
              ELSE [job[r] EXCEPT !.page = job[r].page + 1]]
    /\ UNCHANGED <<thread, events>>

(* PATCH of what was found, POST otherwise.  An update of a comment that   *)
(* is gone or is somebody else's is refused, and the run fails.            *)
IsMine(id) == \E i \in DOMAIN thread : thread[i].id = id /\ thread[i].mine
Write(r) ==
    /\ job[r].at = "write"
    /\ job' = [job EXCEPT ![r] = Free]
    /\ \/ job[r].dry /\ UNCHANGED <<thread, events>>
       \/ /\ ~job[r].dry /\ job[r].found # 0 /\ IsMine(job[r].found)
          /\ thread' = [i \in DOMAIN thread |->
                          IF thread[i].id = job[r].found THEN [thread[i] EXCEPT !.rev = job[r].rev]
                          ELSE thread[i]]
          /\ events' = [events EXCEPT !.shown = job[r].rev]
       \/ /\ ~job[r].dry /\ job[r].found # 0 /\ ~IsMine(job[r].found)
          /\ UNCHANGED <<thread, events>>
       \/ /\ ~job[r].dry /\ job[r].found = 0
          /\ thread' = Append(thread, Comment(events.ids + 1, TRUE, TRUE, job[r].rev))
          /\ events' = [events EXCEPT !.ids = @ + 1, !.shown = job[r].rev]
(* A request that does not arrive, or is answered with an error.  (That    *)
(* only the answer is lost is Write: the run fails, the comment is there.) *)
Lost(r) ==
    /\ Looking(r) /\ events.lost < MaxLost
    /\ job' = [job EXCEPT ![r] = Free]
    /\ events' = [events EXCEPT !.lost = @ + 1]
    /\ UNCHANGED thread

(* Others comment, one perhaps quoting the marker, and delete comments.    *)
Others == \E quote \in BOOLEAN :
    /\ events.others < MaxComments
    /\ thread' = Append(thread, Comment(events.ids + 1, FALSE, quote, 0))
    /\ events' = [events EXCEPT !.ids = @ + 1, !.others = @ + 1]
    /\ UNCHANGED job
Delete == \E i \in DOMAIN thread :
    /\ events.others < MaxComments
    /\ thread' = RemoveAt(thread, i)
    /\ events' = [events EXCEPT !.others = @ + 1,
                     !.shifted = @ \/ \E r \in CIRuns : Looking(r)]
    /\ UNCHANGED job

Next == (\E r \in CIRuns : Publish(r) \/ Look(r) \/ Write(r) \/ Lost(r)) \/ Others \/ Delete

-----------------------------------------------------------------------------

(* One comment of ours on the pull request, whatever was lost and however  *)
(* often a run was repeated, as long as the runs did not overlap, nothing  *)
(* was deleted during a lookup (the pages move, and the comment is missed) *)
(* and the thread fits the pages that are looked at.  It shows the last    *)
(* body that was sent.  (code/pr_publish.py:1-9.)                          *)
Ours == {i \in DOMAIN thread : thread[i].mine}
OneThread ==
    (~events.overlap /\ ~events.shifted /\ events.ids <= PerPage * MaxPages) =>
        /\ Cardinality(Ours) <= 1
        /\ \A i \in Ours : thread[i].rev = events.shown
=============================================================================
