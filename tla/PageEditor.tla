------------------------------ MODULE PageEditor ------------------------------
(***************************************************************************)
(* The page editor of a SilverBullet client: typing, the save timer, writes, *)
(* navigation and the reload of a page that changed elsewhere                *)
(* (content_manager.ts, navigator.ts, reducer.ts and the update plugin of     *)
(* codemirror/editor_state.ts).  Everything runs on one thread and           *)
(* interleaves at its awaits.                                               *)
(*                                                                          *)
(* A text is the set of the things written into it, each a token that names  *)
(* its page, who wrote it and a number.  All pages exist and are writable;    *)
(* documents with an editor of their own, cursors, scrolling and the forward  *)
(* button are left out.  The client's own writes are noticed within five      *)
(* seconds of the save, so they never count as changes made elsewhere.        *)
(***************************************************************************)
EXTENDS Naturals, FiniteSets, SequencesExt

CONSTANTS
    Pages, Home,   \* the page opened first
    MaxEvents      \* bounds what the user, the network and other clients do

ASSUME EditorAssumption ==
    /\ Home \in Pages
    /\ MaxEvents \in Nat

VARIABLES
    files,      \* the pages in the space
    news,       \* pages changed elsewhere, which the client has not noticed
    shown,      \* viewState.current.path
    opened,     \* the page whose text is in the editor (ghost)
    text,       \* the text in the editor
    unsaved,    \* viewState.unsavedChanges
    composing, composingDirty,
    timer,      \* the pending timer that saveTimeout names, if any
    strays,     \* pending timers that it no longer names
    writes,     \* calls of writePage in flight
    loads,      \* calls of loadPage in flight
    promise,    \* navigationPromise is there
    waiting,    \* pages of the calls of navigate that await it, in order
    history,    \* the browser's history up to the current entry
    goBack,     \* history.go(-1) was called
    events,     \* counted for the bound
    typed,      \* what the user typed (ghost)
    hurried,    \* something was typed during a write (ghost)
    risky,      \* something was typed during a load, or left while composing (ghost)
    astray,     \* two loads overlapped, or a Back failed, which nothing reverts (ghost)
    stuck       \* a load awaits a timer that was cleared (ghost)

editor == <<shown, opened, text, unsaved>>
compose == <<composing, composingDirty>>
saving == <<timer, strays, writes>>
nav == <<promise, waiting, history, goBack>>
typing == <<typed, hurried, risky>>
editorGhosts == <<typing, astray, stuck>>
editorVars == <<files, news, editor, compose, saving, loads, nav, events, editorGhosts>>

Event == events < MaxEvents /\ events' = events + 1

(***************************************************************************)
(* Timers.  The promise of a save whose timer is cleared is never resolved,   *)
(* and the load that awaits it hangs: it is not in loads any more.  A timer    *)
(* set to try again calls save when it fires, the others write.              *)
(***************************************************************************)
Nobody == 0
Timer(waiter) == {[waiter |-> waiter, again |-> FALSE]}
Again == {[waiter |-> Nobody, again |-> TRUE]}
Awaiting(ls, timers) == {l \in ls : \E t \in timers : t.waiter = l.id}

\* save, in the middle of a step that leaves these loads and this pending timer.
Save(waiter, ls, pending) ==
    /\ timer' = Timer(waiter)
    /\ loads' = ls \ Awaiting(ls, pending)
    /\ stuck' = (stuck \/ Awaiting(ls, pending) # {})

NewLoad(page, kind, ls) ==
    [id |-> CHOOSE n \in 1..(Cardinality(ls) + 1) : \A l \in ls : l.id # n,
     page |-> page, kind |-> kind, other |-> page # shown, at |-> "leave", doc |-> {}]

\* Mutant of Begin: the page is left without waiting for its save.
BeginAtOnce(page, kind, ls, pending) ==
    LET l == [NewLoad(page, kind, ls) EXCEPT !.at = "read"]
    IN  /\ Save(Nobody, ls \cup {l}, pending)
        /\ astray' = (astray \/ ls \ Awaiting(ls, pending) # {})

\* loadPage up to its first await: leaveCurrentPage saves at once.
Begin(page, kind, ls, pending) ==
    LET l == NewLoad(page, kind, ls)
    IN  /\ Save(l.id, ls \cup {l}, pending)
        /\ astray' = (astray \/ ls \ Awaiting(ls, pending) # {})

\* The load of a popstate is over: whoever awaits the navigation goes on, and those
\* that wait for it to end navigate, each clearing the timer of the one before.
EndNavigation(ls, pending, failed) ==
    /\ goBack' = (goBack \/ (failed /\ promise))
    /\ waiting' = <<>>
    /\ promise' = (waiting # <<>>)
    /\ history' = history \o waiting
    /\ IF waiting = <<>>
       THEN /\ loads' = ls
            /\ timer' = pending
            /\ astray' = (astray \/ (failed /\ ~promise))
            /\ UNCHANGED stuck
       ELSE LET hung == IF Len(waiting) = 1 THEN {}
                        ELSE {NewLoad(Head(waiting), "popstate", ls)}
            IN  Begin(Last(waiting), "popstate", ls \cup hung,
                      pending \cup UNION {Timer(l.id) : l \in hung})

\* Mutant of EndLoad: a navigation that failed is not reverted.
EndWithoutRevert(l, pending, failed) ==
    IF l.kind = "popstate"
    THEN EndNavigation(loads \ {l}, pending, failed /\ ~promise)
    ELSE loads' = loads \ {l} /\ timer' = pending /\ UNCHANGED <<nav, astray, stuck>>

\* Mutant of EndLoad: a load that failed resolves nothing.
EndIfLoaded(l, pending, failed) ==
    IF l.kind = "popstate" /\ ~failed
    THEN EndNavigation(loads \ {l}, pending, failed)
    ELSE loads' = loads \ {l} /\ timer' = pending /\ UNCHANGED <<nav, astray, stuck>>

EndLoad(l, pending, failed) ==
    IF l.kind = "popstate"
    THEN EndNavigation(loads \ {l}, pending, failed)
    ELSE loads' = loads \ {l} /\ timer' = pending /\ UNCHANGED <<nav, astray, stuck>>

(***************************************************************************)
(* Typing                                                                  *)
(***************************************************************************)
Type ==
    LET token == <<opened, "user", events>>
    IN  /\ Event
        /\ text' = text \cup {token}
        /\ unsaved' = TRUE
        /\ typed' = typed \cup {token}
        /\ hurried' = (hurried \/ writes # {})
        /\ risky' = (risky \/ loads # {})
        /\ composingDirty' = composing
        /\ IF composing THEN UNCHANGED <<timer, loads, stuck>> ELSE Save(Nobody, loads, timer)
        /\ UNCHANGED <<files, news, shown, opened, composing, strays, writes, nav, astray>>

BeginComposition ==
    /\ ~composing
    /\ Event
    /\ composing' = TRUE
    /\ UNCHANGED <<files, news, editor, composingDirty, saving, loads, nav, editorGhosts>>

EndComposition ==
    /\ composing
    /\ composing' = FALSE
    /\ composingDirty' = FALSE
    /\ IF composingDirty THEN Save(Nobody, loads, timer) ELSE UNCHANGED <<timer, loads, stuck>>
    /\ UNCHANGED <<files, news, editor, strays, writes, nav, events, typing, astray>>

(***************************************************************************)
(* The timer of save, and writePage                                        *)
(***************************************************************************)
Resolved(waiter) == {IF l.id = waiter THEN [l EXCEPT !.at = "read"] ELSE l : l \in loads}

\* A timer fires; this and those are what is left pending.
Fire(t, this, those) ==
    /\ CASE t.again ->
              /\ Save(Nobody, loads, this)
              /\ strays' = those
              /\ UNCHANGED <<writes, risky>>
         [] ~t.again /\ ~unsaved ->
              /\ loads' = Resolved(t.waiter)
              /\ timer' = this /\ strays' = those
              /\ UNCHANGED <<writes, risky, stuck>>
         [] ~t.again /\ unsaved /\ composing ->
              /\ loads' = Resolved(t.waiter)
              /\ timer' = Again /\ strays' = those \cup this
              /\ risky' = (risky \/ t.waiter # Nobody)
              /\ UNCHANGED <<writes, stuck>>
         [] OTHER ->
              /\ writes' = writes \cup {[page |-> shown, text |-> text, waiter |-> t.waiter]}
              /\ timer' = this /\ strays' = those
              /\ UNCHANGED <<loads, risky, stuck>>
    /\ UNCHANGED <<files, news, editor, compose, nav, events, typed, hurried, astray>>

FireTimer == \E t \in timer : Fire(t, {}, strays)
FireStray == \E t \in strays : Fire(t, timer, strays \ {t})

PageSaved(w) ==
    /\ files' = [files EXCEPT ![w.page] = w.text]
    /\ unsaved' = FALSE
    /\ writes' = writes \ {w}
    /\ loads' = Resolved(w.waiter)
    /\ UNCHANGED <<news, shown, opened, text, compose, timer, strays, nav, events, editorGhosts>>

\* Mutant of WriteFails: the page is not written again.
WriteFailsForGood(w) ==
    LET waiter == {l \in loads : l.id = w.waiter}
    IN  /\ Event
        /\ writes' = writes \ {w}
        /\ IF waiter = {}
           THEN UNCHANGED <<timer, loads, nav, astray, stuck>>
           ELSE \E l \in waiter : EndLoad(l, timer, TRUE)
        /\ UNCHANGED <<files, news, editor, compose, strays, typing>>

\* Retried in ten seconds; a load that awaits it fails.
WriteFails(w) ==
    LET waiter == {l \in loads : l.id = w.waiter}
    IN  /\ Event
        /\ writes' = writes \ {w}
        /\ strays' = strays \cup timer
        /\ IF waiter = {}
           THEN timer' = Again /\ UNCHANGED <<loads, nav, astray, stuck>>
           ELSE \E l \in waiter : EndLoad(l, Again, TRUE)
        /\ UNCHANGED <<files, news, editor, compose, typing>>

(***************************************************************************)
(* Loading a page                                                          *)
(***************************************************************************)
\* The page is read and becomes the current one; its text is not in the editor yet.
ReadPage(l) ==
    /\ l.at = "read"
    /\ shown' = l.page
    /\ loads' = (loads \ {l}) \cup {[l EXCEPT !.at = "show", !.doc = files[l.page]]}
    /\ news' \in {news, IF shown = l.page THEN news ELSE news \ {l.page}}
    /\ UNCHANGED <<files, opened, text, unsaved, compose, saving, nav, events, editorGhosts>>

\* Not found and offline are no errors; any other ends the load.
ReadFails(l) ==
    /\ l.at = "read"
    /\ Event
    /\ EndLoad(l, timer, TRUE)
    /\ UNCHANGED <<files, news, editor, compose, strays, writes, typing>>

\* setState, or a patch of the text there is when the page is the same.
ShowPage(l) ==
    /\ l.at = "show"
    /\ text' = l.doc
    /\ opened' = l.page
    /\ composingDirty' = (composingDirty /\ ~l.other)
    /\ EndLoad(l, timer, FALSE)
    /\ UNCHANGED <<files, news, shown, unsaved, composing, strays, writes, events, typing>>

Load(l) == ReadPage(l) \/ ShowPage(l)

(***************************************************************************)
(* Navigation                                                              *)
(***************************************************************************)
Navigate(page) ==
    /\ Event
    /\ IF promise
       THEN /\ waiting' = Append(waiting, page)
            /\ UNCHANGED <<promise, history, timer, loads, astray, stuck>>
       ELSE /\ promise' = TRUE
            /\ history' = Append(history, page)
            /\ Begin(page, "popstate", loads, timer)
            /\ UNCHANGED waiting
    /\ UNCHANGED <<files, news, editor, compose, strays, writes, goBack, typing>>

PopState ==
    /\ Len(history) > 1
    /\ history' = Front(history)
    /\ Begin(Last(Front(history)), "popstate", loads, timer)
    /\ UNCHANGED <<files, news, editor, compose, strays, writes, promise, waiting, typing>>

\* The back button.
Back == Event /\ PopState /\ UNCHANGED goBack

\* A navigation that failed is reverted.
Revert == goBack /\ goBack' = FALSE /\ PopState /\ UNCHANGED events

(***************************************************************************)
(* Other clients                                                           *)
(***************************************************************************)
PageChangedElsewhere(page) ==
    /\ Event
    /\ files' = [files EXCEPT ![page] = @ \cup {<<page, "other", events>>}]
    /\ news' = news \cup {page}
    /\ UNCHANGED <<editor, compose, saving, loads, nav, editorGhosts>>

\* file:changed reloads the current page, unless a save began less than five seconds ago.
FileChanged(page) ==
    /\ page \in news
    /\ news' = news \ {page}
    /\ \/ shown = page /\ Begin(page, "reload", loads, timer)
       \/ /\ shown # page \/ typed # {}
          /\ UNCHANGED <<timer, loads, astray, stuck>>
    /\ UNCHANGED <<files, editor, compose, strays, writes, nav, events, typing>>

-----------------------------------------------------------------------------
Origin(page) == {<<page, "origin", 0>>}

EditorInit ==
    /\ files = [page \in Pages |-> Origin(page)]
    /\ news = {}
    /\ shown = Home /\ opened = Home /\ text = Origin(Home) /\ unsaved = FALSE
    /\ composing = FALSE /\ composingDirty = FALSE
    /\ timer = {} /\ strays = {} /\ writes = {} /\ loads = {}
    /\ promise = FALSE /\ waiting = <<>> /\ history = <<Home>> /\ goBack = FALSE
    /\ events = 0
    /\ typed = {} /\ hurried = FALSE /\ risky = FALSE /\ astray = FALSE /\ stuck = FALSE

EditorNext ==
    \/ Type \/ BeginComposition \/ EndComposition
    \/ FireTimer \/ FireStray
    \/ \E w \in writes : PageSaved(w) \/ WriteFails(w)
    \/ \E l \in loads : Load(l) \/ ReadFails(l)
    \/ Back \/ Revert
    \/ \E page \in Pages : Navigate(page) \/ PageChangedElsewhere(page) \/ FileChanged(page)

\* Timers fire, calls of the space end, a composition ends, and a reverted navigation
\* comes back as a popstate.
EditorSpec ==
    /\ EditorInit /\ [][EditorNext]_editorVars
    /\ WF_editorVars(FireTimer) /\ WF_editorVars(FireStray)
    /\ WF_editorVars(EndComposition) /\ WF_editorVars(Revert)
    /\ WF_editorVars(\E w \in writes : PageSaved(w))
    /\ WF_editorVars(\E l \in loads : Load(l))

(***************************************************************************)
(* Properties                                                              *)
(***************************************************************************)
Calm == ~astray /\ ~stuck

\* When no page is loading, the page in the title is the one in the address and the
\* one whose text is in the editor, also after failed reads and writes and after a
\* navigation that failed and was reverted.  Not so once loads overlapped, a load
\* awaits a timer that was cleared, or a Back failed: no navigation awaits it, so the
\* address is not put back.
WhereItSays ==
    Calm /\ loads = {} /\ ~promise /\ ~goBack =>
        /\ shown = Last(history)
        /\ opened = shown

\* No page is written with the text of another one, unless the user typed while a page
\* was loading, or one of these three happened.
NoStrangers ==
    Calm /\ ~risky => \A page \in Pages : \A token \in files[page] : token[1] = page

\* If nothing is typed while a page is written or loaded, all that is typed is in its
\* page in the end.
TypedIsKept ==
    <>[](Calm /\ ~risky /\ ~hurried => \A token \in typed : token \in files[token[1]])

\* "Every second or two your changes are persisted safely": the same of a user who types
\* while a page is written.
TypedIsSaved == <>[](Calm /\ ~risky => \A token \in typed : token \in files[token[1]])

\* Whoever awaits a navigation sees it end, unless the timer it awaits was cleared.
NavigationEnds == promise ~> (~promise \/ stuck)
=============================================================================
