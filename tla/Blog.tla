--------------------------------- MODULE Blog ---------------------------------
(***************************************************************************)
(* Blog posts (blog.service.ts): a draft admins edit and send to review,   *)
(* and the approved copy the public site serves.  Every operation reads    *)
(* the row and later saves all of it; postRaced holds the posts on which a *)
(* save overwrote what another had saved.                                  *)
(***************************************************************************)
EXTENDS Requests

CONSTANTS PostIds, Drafts, Slugs

VARIABLES
  post,       \* blog_posts
  submitted,  \* texts that have been in review, by post
  promised,   \* address a post was first published at
  postRaced

blogVars == <<post, submitted, promised, postRaced>>

Blank  == "blank"
NoText == "no text"
NoSlug == "no slug"
Post == [status : {"none", "draft", "in_review", "published", "archived"}, text : Drafts \cup {Blank},
         live : Drafts \cup {NoText}, slug : Slugs \cup {NoSlug}, first : BOOLEAN]
NoPost == [status |-> "none", text |-> Blank, live |-> NoText, slug |-> NoSlug, first |-> FALSE]

ASSUME BlogConstantsOK == Blank \notin Drafts /\ NoText \notin Drafts /\ NoSlug \notin Slugs

BlogInit ==
  /\ post = [b \in PostIds |-> NoPost]
  /\ submitted = [b \in PostIds |-> {}] /\ promised = [b \in PostIds |-> NoSlug]
  /\ postRaced = {}

Taken(slug, b) == \E other \in PostIds \ {b} : post[other].slug = slug

(* The row is read, changed in memory, and saved after other awaits.       *)
ReadPost(p, b, row) ==
  /\ Begin(p, [pc |-> "blog", id |-> b, row |-> row, read |-> post[b]])
  /\ UNCHANGED blogVars

(* The slug is unique in the table.                                        *)
SavePost(p) ==
  /\ At(p, "blog")
  /\ LET c == call[p] IN
     IF Taken(c.row.slug, c.id) /\ c.row.slug # NoSlug THEN UNCHANGED blogVars
     ELSE /\ post' = [post EXCEPT ![c.id] = c.row]
          /\ submitted' = [submitted EXCEPT ![c.id] = @ \cup
                            {t \in {c.row.text} : c.row.status = "in_review" /\ c.read.status # "in_review"}]
          /\ promised' = [promised EXCEPT ![c.id] = IF @ = NoSlug /\ c.row.first THEN c.row.slug ELSE @]
          /\ postRaced' = postRaced \cup {b \in {c.id} : post[b] # c.read}
  /\ End(p)

-----------------------------------------------------------------------------
CreatePost(p, b, text, slug) ==
  /\ post[b].status = "none" /\ \A q \in InFlight("blog") : call[q].id # b
  /\ ~Taken(slug, b)
  /\ ReadPost(p, b, [NoPost EXCEPT !.status = "draft", !.text = text, !.slug = slug])

Reopened(status) == IF status = "published" THEN "draft" ELSE status

(* Mutant of UpdatePost: the text changes under the reviewer's eyes.       *)
UpdateAnyPost(p, b, text, slug) ==
  /\ post[b].status # "none"
  /\ slug = post[b].slug \/ (~post[b].first /\ ~Taken(slug, b))
  /\ ReadPost(p, b, [post[b] EXCEPT !.status = Reopened(@), !.text = text, !.slug = slug])

(* The address is locked once the post has been published.                 *)
UpdatePost(p, b, text, slug) ==
  /\ post[b].status \notin {"none", "in_review"}
  /\ slug = post[b].slug \/ (~post[b].first /\ ~Taken(slug, b))
  /\ ReadPost(p, b, [post[b] EXCEPT !.status = Reopened(@), !.text = text, !.slug = slug])

RemovePost(p, b) ==
  /\ post[b].status # "none" /\ ~post[b].first
  /\ ReadPost(p, b, NoPost)

SubmitPost(p, b) ==
  /\ post[b].status \in {"draft", "published"} /\ post[b].text # Blank
  /\ ReadPost(p, b, [post[b] EXCEPT !.status = "in_review"])

(* approve copies the draft to the public copy.                            *)
ApprovePost(p, b) ==
  /\ post[b].status = "in_review"
  /\ ReadPost(p, b, [post[b] EXCEPT !.status = "published", !.live = post[b].text, !.first = TRUE])

RequestChanges(p, b) ==
  /\ post[b].status = "in_review"
  /\ ReadPost(p, b, [post[b] EXCEPT !.status = "draft"])

ArchivePost(p, b) ==
  /\ post[b].status # "none"
  /\ ReadPost(p, b, [post[b] EXCEPT !.status = "archived"])

UnarchivePost(p, b) ==
  /\ post[b].status = "archived"
  /\ ReadPost(p, b, [post[b] EXCEPT !.status = IF post[b].live # NoText THEN "published" ELSE "draft"])

BlogNext ==
  \E p \in Procs :
    \/ \E b \in PostIds :
         \/ \E text \in Drafts \cup {Blank}, slug \in Slugs :
              CreatePost(p, b, text, slug) \/ UpdatePost(p, b, text, slug)
         \/ RemovePost(p, b) \/ SubmitPost(p, b) \/ ApprovePost(p, b) \/ RequestChanges(p, b)
         \/ ArchivePost(p, b) \/ UnarchivePost(p, b)
    \/ SavePost(p)

BlogSpec == RequestsInit /\ BlogInit /\ [][BlogNext]_<<blogVars, requestVars>>

-----------------------------------------------------------------------------
(* publicGet, publicList: what a reader finds at an address.               *)
ReadAt(slug) == {b \in PostIds : post[b].slug = slug /\ post[b].live # NoText /\ post[b].status # "archived"}

BlogTypeOK ==
  /\ post \in [PostIds -> Post] /\ submitted \in [PostIds -> SUBSET Drafts]
  /\ promised \in [PostIds -> Slugs \cup {NoSlug}] /\ postRaced \subseteq PostIds

(* "Edits after publish never leak to readers until re-approved" and "old   *)
(* links must never die": readers only find text that has been in review,   *)
(* and a post once published stays at its address unless it is archived or  *)
(* two handlers overlapped on it.                                           *)
ReadersFindReviewed ==
  /\ \A slug \in Slugs : \A b \in ReadAt(slug) : post[b].live \in submitted[b]
  /\ \A b \in PostIds \ postRaced :
       promised[b] # NoSlug => b \in ReadAt(promised[b]) \/ post[b].status = "archived"
==============================================================================
