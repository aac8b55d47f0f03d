---------------------------- MODULE AtomdownEdits ----------------------------
(***************************************************************************)
(* The two Atomdown views editing one page: the board panel and the inline *)
(* view, each a plug in a worker of its own, over the editor's one buffer. *)
(* Every edit has the same shape: the arguments come from what the view    *)
(* last drew, the worker reads the buffer, computes the new text, and asks *)
(* the editor to replace the range in which the two differ.  Each request  *)
(* to the editor is a message, so anything can happen between two of them. *)
(***************************************************************************)
EXTENDS AtomdownDocument

CONSTANTS Texts,       \* the texts a page may be opened with
          GroupIds,    \* ids the generator can draw for a new group
          Names,       \* what a user types where a name is asked for
          Blocks,      \* what a card's text is edited to
          TypedLines,  \* lines typed straight into the editor
          MaxChanges   \* bound: edits begun by the views and changes typed

IsSeq(s) == s \in Seq(Range(s))
Kept(attrs) == Without(attrs, {"slug", "digest"})
\* Attributes have names, and there are finitely many on a line; two directives
\* with the same id say the same but for the slug and the digest.
Attributes(attrs) ==
    /\ IsFiniteSet(DOMAIN attrs) /\ "" \notin DOMAIN attrs
    /\ attrs = [n \in DOMAIN attrs |-> attrs[n]]
Consistent(lines) ==
    /\ \A l \in lines : l.kind \in {"atom", "open"} => Attributes(l.attrs)
    /\ \A l, m \in lines :
          (/\ l.kind = "atom" /\ m.kind = "atom" /\ HasAttr(l, "id") /\ HasAttr(m, "id")
           /\ l.attrs["id"] = m.attrs["id"]) => Kept(l.attrs) = Kept(m.attrs)

ASSUME TextsAssumption ==
    /\ \A text \in Texts : IsSeq(text) /\ Consistent(Range(text))
    /\ \A block \in Blocks : IsSeq(block)
\* What is typed is content: directives are not written by hand.
ASSUME TypedAssumption == \A l \in TypedLines : l.kind \in {"text", "blank", "spaces"}

VARIABLES buffer,    \* the editor's text
          drawn,     \* per view, the text its cards were drawn from
          job,       \* per view, the edit its worker is busy with
          changes,
          spent,     \* history: the ids of groups on the page and drawn for one
          torn       \* history: a write met another text than it was made for

viewVars == <<buffer, drawn, job, changes, spent, torn>>

Views == {"board", "inline"}
Idle == [step |-> "idle"]
None == <<"none">>

ViewInit == /\ buffer \in Texts
        /\ drawn = [v \in Views |-> buffer]
        /\ job = [v \in Views |-> Idle]
        /\ changes = 0
        /\ spent = ExistingIds(buffer)
        /\ torn = FALSE

-----------------------------------------------------------------------------
(* Reading the buffer and computing the edit.  A refusal, or a result that *)
(* changes nothing, ends the call without a write.                         *)

Free(v) == job[v] = Idle /\ changes < MaxChanges

BeginEdit(v, step, request, answer) ==
    /\ answer.ok /\ answer.text # buffer
    /\ changes' = changes + 1
    /\ job' = [job EXCEPT ![v] = [step |-> step, request |-> request,
                                  old |-> buffer, new |-> answer.text]]
    /\ spent' = IF request.op = "group" THEN spent \cup {request.id} ELSE spent
    /\ UNCHANGED <<buffer, drawn, torn>>

Cards(v) == ParseAtoms(drawn[v])
Explicit(v) == {c \in Range(Cards(v)) : ~IsImplicit(c)}
DrawnGroups(v) == {u.key : u \in {w \in Range(ComputeUnits(drawn[v])) : w.kind = "group"}}
IsGroupKey(key) == key[1] \in {"group", "line"}

\* The units of the panel's cards, one for each card.
KeysOf(cards) == Tuple([n \in DOMAIN cards |-> UnitKeyForCard(cards[n])])
CardKeys == KeysOf(Cards("board"))
\* The same without repetition: the order a selection is judged by.
Dedupe(keys) ==
    LET new == {n \in DOMAIN keys : \A m \in 1..(n - 1) : keys[m] # keys[n]}
        at == Ascending(new)
    IN [n \in DOMAIN at |-> keys[at[n]]]

\* pickDropTarget: before a card, after the last one, or past the end.
PickDropTarget(keys) ==
    {<<keys[n], "before">> : n \in DOMAIN keys} \cup {<<Last(keys), "after">>, <<None, "end">>}

\* The generator draws again while its id is taken; with its 40 random bits
\* two draws are never the same.
FreshId == GroupIds \ (ExistingIds(buffer) \cup spent)

\* The selections that the panel's menu offers Group for.
Groupable(order) ==
    {keys \in SUBSET Range(order) :
       /\ Cardinality(keys) > 1
       /\ \A k \in keys : ~IsGroupKey(k)
       /\ IsContiguous({n \in DOMAIN order : order[n] \in keys})}

ReorderAtom ==
    LET keys == CardKeys IN
    \E moved \in Range(keys), drop \in PickDropTarget(keys) :
      /\ moved # drop[1]
      /\ BeginEdit("board", "write",
               [op |-> "reorder", moved |-> moved, target |-> drop[1], place |-> drop[2]],
               ReorderUnit(buffer, moved, drop[1], drop[2]))

GroupAtoms ==
    \E keys \in Groupable(Dedupe(CardKeys)), id \in FreshId, typed \in Names :
      /\ BeginEdit("board", "write", [op |-> "group", keys |-> keys, id |-> id],
               InsertGroupMarkers(buffer, keys, id, typed))

\* Ungroup and rename name the group by the key its header was drawn with.
UngroupAtoms(v, key) ==
    /\ ~GroupFault(buffer, key)
    /\ BeginEdit(v, "write", [op |-> "ungroup", key |-> key], RemoveGroupMarkers(buffer, key))

RenameGroup(v, step, key, typed) ==
    /\ ~GroupFault(buffer, key)
    /\ BeginEdit(v, step, [op |-> "name"], SetGroupSlug(buffer, key[2], typed))

ChangeGroupAtoms ==
    /\ \E key \in DrawnGroups("board") :
         \/ UngroupAtoms("board", key)
         \/ \E typed \in Names : RenameGroup("board", "write", key, typed)

\* The panel's attribute editor sends what it was drawn with, as changed.
Requested(attrs, typed) ==
    {Without(attrs, {"digest"})} \cup {With(attrs, "slug", typed)}

SameSlug(id, sent) ==
    LET at == DirectiveLine(buffer, id)
    IN at > 0 /\ SlugIn(buffer[at].attrs) = SanitizeSlug(SlugIn(sent))

BoardSaveAttrs ==
    \E c \in Explicit("board"), typed \in Names : \E sent \in Requested(c.attrs, typed) :
      /\ BeginEdit("board", "write",
               [op |-> "attrs", id |-> c.id[2], quiet |-> SameSlug(c.id[2], sent)],
               SaveAttrs(buffer, c.id[2], sent))

SaveAtomBlock ==
    \E c \in Explicit("board"), new \in Blocks :
      /\ BeginEdit("board", "write", [op |-> "block", id |-> c.id[2], text |-> new],
               ReplaceAtomBlock(buffer, c.id[2], new))

\* The review lists the cards drawn stale, and the user unchecks some.
RefreshDigests ==
    \E ids \in SUBSET {c.id[2] : c \in {d \in Explicit("board") :
                                          DigestState(d) \in {"stale", "none"}}} :
      /\ ids # {}
      /\ BeginEdit("board", "write", [op |-> "review", ids |-> ids],
               SetAtomDigests(buffer, ReviewEntries(buffer, ids)))

-----------------------------------------------------------------------------
(* The inline view.  Where it asks for a name it has read the buffer       *)
(* first, and the prompt stays open as long as the user likes.             *)

InlineOrder == UnitOrder(drawn["inline"])

\* A drop that covers no unit goes before the first unit at or below it.
DropTarget(hit, line) ==
    LET units == ComputeUnits(buffer)
        next == FirstOf({n \in DOMAIN units : units[n].first >= line})
    IN IF hit # None THEN {<<hit, "before">>, <<hit, "after">>}
       ELSE IF next > 0 THEN {<<units[next].key, "before">>} ELSE {<<None, "end">>}

OnDecorationDrag ==
    \E moved \in Range(InlineOrder), hit \in Range(InlineOrder) \cup {None},
       line \in 1..(Len(buffer) + 1) :
      /\ hit # None => line = 1   \* the line is not read then
      /\ \E drop \in DropTarget(hit, line) :
           /\ drop[1] # moved
           /\ BeginEdit("inline", "write",
                    [op |-> "reorder", moved |-> moved, target |-> drop[1], place |-> drop[2]],
                    ReorderUnit(buffer, moved, drop[1], drop[2]))

RenameHere ==
    /\ \/ \E c \in Explicit("inline"), typed \in Names :
            BeginEdit("inline", "ask", [op |-> "name"], SetAtomSlug(buffer, c.id[2], typed))
       \/ \E key \in DrawnGroups("inline"), typed \in Names :
            RenameGroup("inline", "ask", key, typed)

UngroupHere == \E key \in DrawnGroups("inline") : UngroupAtoms("inline", key)

\* The selection was made on the blocks as they were drawn; whether it can
\* be grouped is judged on the text as it is now.
GroupSelection ==
    LET order == InlineOrder IN
    \E from, to \in DOMAIN order, id \in FreshId, typed \in Names :
      LET keys == {order[n] : n \in from..to}
      IN /\ keys \in Groupable(UnitOrder(buffer))
         /\ BeginEdit("inline", "ask", [op |-> "group", keys |-> keys, id |-> id],
                  InsertGroupMarkers(buffer, keys, id, typed))

\* The prompt is answered.
Answer ==
    /\ job["inline"].step = "ask"
    /\ job' = [job EXCEPT !["inline"].step = "write"]
    /\ UNCHANGED <<buffer, drawn, changes, spent, torn>>

\* Or it is dismissed.
Cancel ==
    /\ job["inline"].step = "ask"
    /\ job' = [job EXCEPT !["inline"] = Idle]
    /\ UNCHANGED <<buffer, drawn, changes, spent, torn>>

\* The form sends rows: names and values in order, one of them invalid.
Rows(attrs, typed) ==
    LET names == SetToSeq(DOMAIN attrs \ {"id", "slug"})
        row(name, value) == [name |-> name, value |-> value, valid |-> name # "a b"]
        kept == [n \in DOMAIN names |-> row(names[n], attrs[names[n]])]
    IN {kept \o <<row("slug", typed)>>, kept \o <<row("slug", typed), row("slug", <<>>)>>,
        Append(kept, row("a b", "v"))}

InlineSaveAttrs ==
    \E c \in Explicit("inline"), typed \in Names : \E rows \in Rows(c.attrs, typed) :
      /\ BeginEdit("inline", "write", [op |-> "attrs", id |-> c.id[2], quiet |-> TRUE],
               SetAtomAttrs(buffer, c.id[2], rows))

-----------------------------------------------------------------------------
(* The pages the properties are about. *)

Markers(lines) == {i \in DOMAIN lines : lines[i].kind \in {"open", "close"}}
\* Opening and closing markers alternate.
Paired(lines) ==
    /\ \A o \in Markers(lines) : lines[o].kind = "open" =>
          \E c \in Markers(lines) : /\ o < c /\ lines[c].kind = "close"
                                    /\ \A k \in Markers(lines) : k <= o \/ c <= k
    /\ \A c \in Markers(lines) : lines[c].kind = "close" =>
          \E o \in Markers(lines) : /\ o < c /\ lines[o].kind = "open"
                                    /\ \A k \in Markers(lines) : k <= o \/ c <= k

\* The directives are where the format wants them: the document line at the
\* top, each atom's directly above a block of its own, no id twice, markers in
\* pairs, and none of them all that keeps two blocks apart.
IdOf(l) == IF HasAttr(l, "id") THEN l.attrs["id"] ELSE "none"
WellPlaced(lines) ==
    /\ \A i \in DOMAIN lines : lines[i].kind = "doc" => i <= PreambleEnd(lines)
    /\ \A i \in DOMAIN lines : lines[i].kind = "atom" =>
          HasAttr(lines[i], "id") /\ i < Len(lines) /\ InBlock(lines[i + 1])
    /\ Paired(lines)
    /\ \A i \in Markers(lines) : (i < Len(lines) /\ InBlock(lines[i + 1])) =>
          lines[i].kind = "open" /\ (i > 1 => ~InBlock(lines[i - 1]))
    /\ \A i, j \in Carriers(lines) :
          (i # j /\ HasAttr(lines[i], "id") /\ HasAttr(lines[j], "id")) =>
             lines[i].attrs["id"] # lines[j].attrs["id"]

\* The text is the one the edit was computed from.
Meets(v) == buffer = job[v].old /\ WellPlaced(buffer)

-----------------------------------------------------------------------------
(* The write, the redraw, and what else happens to the buffer. *)

\* The board redraws after its writes, from the text it computed; after an
\* attribute save only when the name changed.
Redraws(j) == ~(j.request.op = "attrs" /\ j.request.quiet)

ReplaceInEditor(v) ==
    LET edit == MinimalEdit(job[v].old, job[v].new)
        fits == InRange(buffer, edit)
    IN /\ job[v].step = "write"
       /\ buffer' = IF fits THEN ReplaceRange(buffer, edit) ELSE buffer
       /\ job' = [job EXCEPT ![v] = IF fits /\ v = "board" /\ Redraws(job[v])
                                      THEN [@ EXCEPT !.step = "draw"] ELSE Idle]
       \* the inline view hands over its decorations before the write
       /\ drawn' = IF v = "inline" THEN [drawn EXCEPT ![v] = job[v].new] ELSE drawn
       /\ torn' = (torn \/ ~Meets(v))
       /\ UNCHANGED <<changes, spent>>

RerenderBoard ==
    /\ job["board"].step = "draw"
    /\ drawn' = [drawn EXCEPT !["board"] = job["board"].new]
    /\ job' = [job EXCEPT !["board"] = Idle]
    /\ UNCHANGED <<buffer, changes, spent, torn>>

Typed(text) ==
    {InsertAt(text, p, l) : p \in 1..(Len(text) + 1), l \in TypedLines}
      \cup {RemoveAt(text, p) : p \in {q \in DOMAIN text : text[q].kind = "text"}}

TypeLine ==
    /\ changes < MaxChanges /\ changes' = changes + 1
    /\ buffer' \in Typed(buffer)
    /\ UNCHANGED <<drawn, job, spent, torn>>

\* The save that follows typing redraws the inline view; the board is drawn
\* again only when the page is loaded.
RefreshInline ==
    /\ drawn["inline"] # buffer
    /\ drawn' = [drawn EXCEPT !["inline"] = buffer]
    /\ UNCHANGED <<buffer, job, changes, spent, torn>>

BoardEdit == /\ Free("board")
             /\ \/ ReorderAtom \/ GroupAtoms \/ ChangeGroupAtoms
                \/ BoardSaveAttrs \/ SaveAtomBlock \/ RefreshDigests
InlineEdit == /\ Free("inline")
              /\ \/ OnDecorationDrag \/ RenameHere \/ UngroupHere
                 \/ GroupSelection \/ InlineSaveAttrs

ViewNext == \/ BoardEdit \/ InlineEdit
        \/ Answer \/ Cancel
        \/ \E v \in Views : ReplaceInEditor(v)
        \/ RerenderBoard \/ TypeLine \/ RefreshInline

ViewSpec == ViewInit /\ [][ViewNext]_viewVars

-----------------------------------------------------------------------------
(* Properties *)

\* This step writes the edit of a view into the text it was computed from.
Landed(v) == job[v].step = "write" /\ job'[v].step # "write" /\ Meets(v)
Asked(v) == job[v].request

\* What the cards of a text say, but for names, digests, and one card's text:
\* the explicit ones, and how many implicit ones there are of a text.
Content(lines, edited) ==
    LET atoms == ParseAtoms(lines)
        implicit == {n \in DOMAIN atoms : IsImplicit(atoms[n])}
    IN [explicit |-> {<<atoms[n].id, Kept(atoms[n].attrs),
                        IF atoms[n].id[2] = edited THEN <<>> ELSE atoms[n].text>> :
                        n \in DOMAIN atoms \ implicit},
        implicit |-> [t \in {atoms[n].text : n \in implicit} |->
                        Cardinality({n \in implicit : atoms[n].text = t})]]

\* What a card's text is edited to is one block: no blank line is inside it.
OneBlock(request) ==
    request.op = "block" => \A l \in Range(Trimmed(request.text)) : ~IsBlank(l)

\* Whatever a view rewrites, every atom keeps its own block and its own
\* attributes and no block is lost, doubled or joined with another; an edit
\* of one card's text to another block changes that card's text.
AtomsKeepTheirBlocks ==
    [][\A v \in Views : (Landed(v) /\ OneBlock(Asked(v))) =>
         LET edited == IF Asked(v).op = "block" THEN Asked(v).id ELSE "none"
         IN Content(buffer', edited) = Content(buffer, edited)]_viewVars

Members(lines) == {<<IF u.fault = "none" THEN u.key ELSE <<"faulted">>, u.atoms>> :
                     u \in {w \in Range(ComputeUnits(lines)) : w.kind = "group"}}

\* Groups are made and removed only by the edits that say so, of exactly the
\* selected atoms; no move splits a group or puts a block into one.
GroupsChangeOnlyAsAsked ==
    [][\A v \in Views : Landed(v) =>
         Members(buffer') =
           CASE Asked(v).op = "group" ->
                  Members(buffer) \cup
                    {<<<<"group", Asked(v).id>>,
                       {k[2] : k \in {u \in Asked(v).keys : u[1] = "atom"}}>>}
             [] Asked(v).op = "ungroup" ->
                  {m \in Members(buffer) : m[1] # Asked(v).key}
             [] OTHER -> Members(buffer)]_viewVars

\* A block lands where it was dropped: next to the block it was dropped
\* against, on the side the drop was, or last.  (Implicit blocks are
\* numbered anew by a move, so these are the blocks with a name.)
Named(key) == key[1] \in {"atom", "group"}
LandsWhereDropped ==
    [][\A v \in Views :
         (Landed(v) /\ Asked(v).op = "reorder" /\ Named(Asked(v).moved)) =>
           LET order == UnitOrder(buffer')
               At(key) == FirstOf({n \in DOMAIN order : order[n] = key})
               target == Asked(v).target
           IN IF target = None THEN Last(order) = Asked(v).moved
              ELSE Named(target) =>
                     At(Asked(v).moved) = At(target) + (IF Asked(v).place = "before" THEN -1 ELSE 1)]_viewVars

Digests(lines, but) ==
    {<<IdOf(l), IF "digest" \in DOMAIN l.attrs THEN l.attrs["digest"] ELSE <<>>>> :
       l \in {m \in Range(lines) : m.kind = "atom" /\ IdOf(m) \notin but}}

\* A digest follows its content only when someone says it was reviewed: a
\* review leaves every checkable card it was asked for fresh, and nothing but
\* a review and the attribute editor touches a digest.
OnlyReviewFreshens ==
    [][\A v \in Views : Landed(v) =>
         LET asked == CASE Asked(v).op = "review" -> Asked(v).ids
                        [] Asked(v).op = "attrs" -> {Asked(v).id}
                        [] OTHER -> {}
         IN /\ Digests(buffer', asked) = Digests(buffer, asked)
            /\ Asked(v).op = "review" =>
                 \A a \in Range(ParseAtoms(buffer')) :
                   (~IsImplicit(a) /\ a.id[2] \in asked /\ a.checkable) => DigestState(a) = "fresh"]_viewVars

\* Removing the markers of a new group gives back the text, to the line: the
\* seams that collapse are only those the markers made.
GroupingIsReversible ==
    (job = [v \in Views |-> Idle] /\ WellPlaced(buffer)) =>
      LET units == ComputeUnits(buffer) IN
      \A from, to \in DOMAIN units : from < to =>
        LET grouped == MarkUnits(buffer, units, {units[n].key : n \in from..to}, "fresh", <<>>)
        IN grouped.ok => RemoveGroupMarkers(grouped.text, <<"group", "fresh">>)
                           = Rewritten(buffer)

\* A card may be drawn from a text the other view or the user has changed
\* since.  What it drags is its own block, the group that holds it, or nothing,
\* as long as no write met another text than it was made for.  The exception is
\* a card of a group without an id, which is known by the line it began on:
\* while the page has another such group, the card drags whichever begins there.
StaleCardsAreSafe ==
    (WellPlaced(buffer) /\ ~torn) =>
      LET units == ComputeUnits(buffer) IN
      \A v \in Views : \A c \in Explicit(v) :
        LET n == FindUnit(units, UnitKeyForCard(c))
            at == DirectiveLine(buffer, c.id[2])
            Holds(m) == at \in units[m].first..units[m].last
            Nameless(m) == units[m].fault # "none"
        IN (n > 0 /\ at > 0) =>
             \/ Holds(n)
             \/ Nameless(n) /\ \E m \in DOMAIN units : Nameless(m) /\ Holds(m)

\* The same without the exception.  reorderAtom reads the buffer again "rather than
\* trusting whatever the client last rendered", but the key it is given is trusted.
CardsDragTheirOwn ==
    (WellPlaced(buffer) /\ ~torn) =>
      LET units == ComputeUnits(buffer) IN
      \A c \in Explicit("inline") :
        LET n == FindUnit(units, UnitKeyForCard(c))
            at == DirectiveLine(buffer, c.id[2])
        IN (n > 0 /\ at > 0) => at \in units[n].first..units[n].last

\* The comment above computeUnits says that it numbers the blocks without a
\* directive as parseAtoms does, "so a card's data-atom-id always resolves to
\* the right unit".
CardsResolve ==
    WellPlaced(buffer) =>
      LET units == ComputeUnits(buffer)
          cards == ParseAtoms(buffer)
          starts == Ascending(BlockStarts(buffer))
      IN \A c \in DOMAIN cards :
           LET n == FindUnit(units, UnitKeyForCard(cards[c]))
           IN n > 0 /\ starts[c] \in units[n].first..units[n].last

=============================================================================
