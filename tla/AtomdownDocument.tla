--------------------------- MODULE AtomdownDocument ---------------------------
(***************************************************************************)
(* The Atomdown page both views edit: a sequence of source lines, the      *)
(* atoms the board panel draws from it, the movable units a drag works on, *)
(* and the rewrites behind every menu item.  Everything here is a function *)
(* of the text, as it is in the plugs; AtomdownEdits adds the editor       *)
(* buffer, the two worker views and the interleavings.                     *)
(*                                                                         *)
(* A line is a record whose "kind" is what the plugs' line patterns tell   *)
(* apart.  Attributes are a function from attribute names to values: their *)
(* order on the line is layout.  A slug is the sequence of its words and   *)
(* the empty sequence is "no slug"; a digest is the block it was taken of. *)
(***************************************************************************)
EXTENDS Integers, Sequences, SequencesExt, FiniteSets, FiniteSetsExt

CONSTANT SlugWords   \* the words of a slug that fit SLUG_MAX_LENGTH
ASSUME SlugWordsAssumption == SlugWords \in Nat \ {0}

-----------------------------------------------------------------------------
(* Lines *)

Blank  == [kind |-> "blank"]                    \* ""
Spaces == [kind |-> "spaces"]                   \* spaces or tabs only
Doc    == [kind |-> "doc"]                      \* <atomdown version="1"/>
Close  == [kind |-> "close"]                    \* </atom-group>
AtomTag(attrs)    == [kind |-> "atom", attrs |-> attrs]
Open(attrs)       == [kind |-> "open", attrs |-> attrs]
Text(shape, body) == [kind |-> "text", shape |-> shape, body |-> body]

IsBlank(l) == l.kind \in {"blank", "spaces"}
HasAttr(l, name) == name \in DOMAIN l.attrs
IsAtom(l, id) == l.kind = "atom" /\ HasAttr(l, "id") /\ l.attrs["id"] = id
IsOpen(l, id) == l.kind = "open" /\ HasAttr(l, "id") /\ l.attrs["id"] = id
LooksLikeDirectiveLine(l) == l.kind \in {"atom", "open", "close", "doc"}
HasShape(l, shape) == l.kind = "text" /\ l.shape = shape

SlugIn(attrs) == IF "slug" \in DOMAIN attrs THEN attrs["slug"] ELSE <<>>
Without(attrs, names) == [n \in DOMAIN attrs \ names |-> attrs[n]]
With(attrs, name, value) == [n \in DOMAIN attrs \cup {name} |->
                               IF n = name THEN value ELSE attrs[n]]

\* The same sequence; TLC computes its elements once instead of at every use.
Tuple(s) == <<>> \o s

\* The last and the first of a set of positions, 0 when there is none.
LastOf(S) == IF S = {} THEN 0 ELSE Max(S)
FirstOf(S) == IF S = {} THEN 0 ELSE Min(S)

\* The positions of a set in their order: the n-th has n of them up to it.
Ascending(S) ==
    Tuple([n \in 1..Cardinality(S) |-> CHOOSE i \in S : Cardinality({j \in S : j <= i}) = n])

-----------------------------------------------------------------------------
(* The identity of a group.  A marker whose id cannot serve as identity is *)
(* known by its line, and carries the fault.                               *)

GroupIdentity(attrs, line, claimed) ==
    IF "id" \notin DOMAIN attrs
      THEN [key |-> <<"line", line>>, fault |-> "no-id"]
    ELSE IF attrs["id"] \in claimed
      THEN [key |-> <<"line", line>>, fault |-> "duplicate-id"]
    ELSE [key |-> <<"group", attrs["id"]>>, fault |-> "none"]

OpenIds(lines, positions) ==
    {lines[h].attrs["id"] : h \in {i \in positions : HasAttr(lines[i], "id")}}

-----------------------------------------------------------------------------
(* parseAtoms: what the board panel draws.  A structural line ends the run *)
(* of content before it; a run splits into blocks at its blank lines, and  *)
(* each block is one atom.  A directive names only the first block of the  *)
(* run that follows it.                                                    *)

IsStructural(l) == LooksLikeDirectiveLine(l) /\ (l.kind = "atom" => HasAttr(l, "id"))
InBlock(l) == ~IsStructural(l) /\ ~IsBlank(l)

BlockStarts(lines) == {i \in DOMAIN lines : /\ InBlock(lines[i])
                                            /\ i = 1 \/ ~InBlock(lines[i - 1])}
BlockEnd(lines, i) == Max({j \in i..Len(lines) : \A k \in i..j : InBlock(lines[k])})

\* The structural line a position comes after, and the run it belongs to.
Heading(lines, i) == LastOf({j \in 1..(i - 1) : IsStructural(lines[j])})
RunOf(lines, i) ==
    LET next == {j \in i..Len(lines) : IsStructural(lines[j])}
    IN (Heading(lines, i) + 1)..(IF next = {} THEN Len(lines) ELSE Min(next) - 1)
BlocksInRun(lines, i) == BlockStarts(lines) \cap RunOf(lines, i)

\* The block is the one its run's directive names.
IsExplicit(lines, i) == LET h == Heading(lines, i) IN
    h > 0 /\ lines[h].kind = "atom" /\ i = Min(BlocksInRun(lines, i))

\* digestCheckable: this chunker cuts the same bytes the binary hashes.
DigestCheckable(lines, i) ==
    LET mine == i..BlockEnd(lines, i)
        before == LastOf({b \in BlocksInRun(lines, i) : b < i})
        after == {b \in BlocksInRun(lines, i) : b > i}
        Joined(a, b) == \E shape \in {"list", "indent"} :
                          HasShape(lines[a], shape) /\ HasShape(lines[b], shape)
    IN /\ \A k \in RunOf(lines, i) : lines[k] # Spaces
       /\ \A k \in mine : ~HasShape(lines[k], "fence")
       /\ before > 0 => ~Joined(before, i)
       /\ after # {} => /\ ~HasShape(lines[Min(after)], "fence")
                        /\ ~Joined(i, Min(after))

\* The group marker a block is inside: the last marker before it, unless
\* that marker closes.
GroupLine(lines, i) ==
    LET g == LastOf({j \in 1..(i - 1) : lines[j].kind \in {"open", "close"}})
    IN IF g > 0 /\ lines[g].kind = "open" THEN g ELSE 0

AtomGroup(lines, i) ==
    LET g == GroupLine(lines, i)
        earlier == {h \in 1..(g - 1) : lines[h].kind = "open"}
    IN IF g = 0 THEN <<"none">>
       ELSE GroupIdentity(lines[g].attrs, g, OpenIds(lines, earlier)).key

AtomsAt(lines, starts, implicit) ==
    Tuple([n \in DOMAIN starts |->
          LET i == starts[n]
              attrs == IF i \in implicit THEN <<>> ELSE lines[Heading(lines, i)].attrs
          IN [id |-> IF i \in implicit
                       THEN <<"implicit", Cardinality({k \in implicit : k <= i})>>
                       ELSE <<"atom", attrs["id"]>>,
              attrs |-> attrs,
              group |-> AtomGroup(lines, i),
              text |-> SubSeq(lines, i, BlockEnd(lines, i)),
              checkable |-> DigestCheckable(lines, i)]])

ParseAtoms(lines) ==
    AtomsAt(lines, Ascending(BlockStarts(lines)),
            {i \in BlockStarts(lines) : ~IsExplicit(lines, i)})

IsImplicit(atom) == atom.id[1] = "implicit"

-----------------------------------------------------------------------------
(* The content digest of a block and the four states a card can show.      *)

DigestOfBlock(text) == [k \in DOMAIN text |->
                          IF text[k].kind = "text" THEN text[k].body ELSE "directive"]

DigestState(atom) ==
    IF IsImplicit(atom) THEN "unchecked"
    ELSE IF "digest" \notin DOMAIN atom.attrs THEN "none"
    ELSE IF ~atom.checkable THEN "unchecked"
    ELSE IF DigestOfBlock(atom.text) = atom.attrs["digest"] THEN "fresh"
    ELSE "stale"

-----------------------------------------------------------------------------
(* computeUnits: the line spans a drag moves.  The scan starts after the   *)
(* preamble, takes a whole group as one unit, and ends an atom at the      *)
(* first blank or directive line.                                          *)

IsBoundary(l) == IsBlank(l) \/ LooksLikeDirectiveLine(l)

PreambleEnd(lines) ==
    LastOf({i \in DOMAIN lines :
              /\ lines[i].kind = "doc"
              /\ \A j \in 1..i : IsBlank(lines[j]) \/ lines[j].kind = "doc"})

\* Mutant: a group ends where an atom would.
UnitEndOfAnyKind(lines, i) ==
    Max({j \in i..Len(lines) : \A k \in (i + 1)..j : ~IsBoundary(lines[k])})

UnitEnd(lines, i) ==
    IF lines[i].kind = "open"
      THEN LET closes == {j \in i..Len(lines) : lines[j].kind = "close"}
           IN IF closes = {} THEN Len(lines) ELSE Min(closes)
      ELSE Max({j \in i..Len(lines) : \A k \in (i + 1)..j : ~IsBoundary(lines[k])})

\* The scan is inside a group: past a marker it found, up to the closing one.
InGroup(lines, i) ==
    \E j \in (PreambleEnd(lines) + 1)..(i - 1) :
       lines[j].kind = "open" /\ \A k \in j..(i - 1) : lines[k].kind # "close"

\* The line above the i-th is the last of a unit, or of none.
UnitEndsAbove(lines, i) ==
    \/ i = PreambleEnd(lines) + 1
    \/ IsBlank(lines[i - 1])
    \/ lines[i - 1].kind = "close" /\ InGroup(lines, i - 1)

\* Where the scan finds a unit: at the first line after the blank ones that
\* the unit before has not taken.
UnitStarts(lines) ==
    {i \in (PreambleEnd(lines) + 1)..Len(lines) :
       /\ ~IsBlank(lines[i]) /\ ~InGroup(lines, i)
       /\ LooksLikeDirectiveLine(lines[i]) \/ UnitEndsAbove(lines, i)}

UnitKind(l) == IF l.kind = "open" THEN "group"
               ELSE IF l.kind = "atom" /\ HasAttr(l, "id") THEN "atom"
               ELSE "implicit"

UnitAt(lines, starts, i) ==
    LET before == {j \in starts : j < i}
        identity == GroupIdentity(lines[i].attrs, i,
                                  OpenIds(lines, {j \in before : lines[j].kind = "open"}))
        number == Cardinality({j \in starts : j <= i /\ UnitKind(lines[j]) = "implicit"})
        inside == {k \in (i + 1)..UnitEnd(lines, i) :
                     lines[k].kind = "atom" /\ HasAttr(lines[k], "id")}
    IN [first |-> i, last |-> UnitEnd(lines, i), kind |-> UnitKind(lines[i]),
        key |-> CASE UnitKind(lines[i]) = "group" -> identity.key
                  [] UnitKind(lines[i]) = "atom" -> <<"atom", lines[i].attrs["id"]>>
                  [] OTHER -> <<"implicit", number>>,
        fault |-> IF UnitKind(lines[i]) = "group" THEN identity.fault ELSE "none",
        atoms |-> IF UnitKind(lines[i]) = "group"
                    THEN {lines[k].attrs["id"] : k \in inside} ELSE {}]

UnitsAt(lines, starts, order) ==
    Tuple([n \in DOMAIN order |-> UnitAt(lines, starts, order[n])])
ComputeUnits(lines) == UnitsAt(lines, UnitStarts(lines), Ascending(UnitStarts(lines)))

Keys(units) == [n \in DOMAIN units |-> units[n].key]
UnitOrder(lines) == Keys(ComputeUnits(lines))
FindUnit(units, key) == FirstOf({n \in DOMAIN units : units[n].key = key})
SpanOf(lines, unit) == SubSeq(lines, unit.first, unit.last)

\* The unit a card of the panel drags: a group member drags its group.
UnitKeyForCard(atom) == IF atom.group # <<"none">> THEN atom.group ELSE atom.id

-----------------------------------------------------------------------------
(* The answer of a rewrite. *)

Refused == [ok |-> FALSE]
Rewritten(text) == [ok |-> TRUE, text |-> text]

-----------------------------------------------------------------------------
(* reorderUnit: cut one unit and put it before or after another.  A seam   *)
(* between two units that stay adjacent keeps its blank lines; a new seam  *)
(* gets one.                                                               *)

\* Mutant: the gap the moved unit leaves is not taken into account.
MovedOrderUncut(count, moved, target) ==
    InsertAt(RemoveAt([n \in 1..count |-> n], moved), Min({target, count}), moved)

\* The order of the units after the move, as positions of the old order.
MovedOrder(count, moved, target) ==
    LET wanted == IF moved < target THEN target - 1 ELSE target
    IN InsertAt(RemoveAt([n \in 1..count |-> n], moved), Min({wanted, count}), moved)

TargetIndex(units, targetKey, placement) ==
    IF targetKey = <<"none">>
      THEN IF placement = "start" THEN 1 ELSE Len(units) + 1
      ELSE FindUnit(units, targetKey) + (IF placement = "after" THEN 1 ELSE 0)

\* The blank lines between two units, by their keys as the gap map holds
\* them: the last pair with those keys, and one blank line for a new pair.
GapBetween(lines, units, a, b) ==
    LET pairs == {n \in 1..(Len(units) - 1) :
                    units[n].key = units[a].key /\ units[n + 1].key = units[b].key}
        n == Max(pairs)
    IN IF pairs = {} THEN <<Blank>>
       ELSE SubSeq(lines, units[n].last + 1, units[n + 1].first - 1)

Preamble(lines, units, order) ==
    LET end == PreambleEnd(lines) IN
    IF end = 0 THEN <<>>
    ELSE SubSeq(lines, 1, end) \o
         (IF units[order[1]].key = units[1].key
            THEN SubSeq(lines, end + 1, units[1].first - 1) ELSE <<Blank>>)

\* The text with its units in a new order.
Reordered(lines, units, order) ==
    LET sameOrder == \A n \in DOMAIN order : units[order[n]].key = units[n].key
        Piece(n) == (IF n = 1 THEN <<>> ELSE GapBetween(lines, units, order[n - 1], order[n]))
                    \o SpanOf(lines, units[order[n]])
    IN IF sameOrder THEN Rewritten(lines)
       ELSE Rewritten(Preamble(lines, units, order)
                      \o FlattenSeq([n \in DOMAIN order |-> Piece(n)])
                      \o SubSeq(lines, Last(units).last + 1, Len(lines)))

MoveUnit(lines, units, movedKey, targetKey, placement) ==
    LET moved == FindUnit(units, movedKey)
    IN IF moved = 0 THEN Refused
       ELSE IF targetKey # <<"none">> /\ FindUnit(units, targetKey) = 0 THEN Refused
       ELSE IF movedKey = targetKey THEN Rewritten(lines)
       ELSE Reordered(lines, units,
                      MovedOrder(Len(units), moved, TargetIndex(units, targetKey, placement)))

ReorderUnit(lines, movedKey, targetKey, placement) ==
    MoveUnit(lines, ComputeUnits(lines), movedKey, targetKey, placement)

-----------------------------------------------------------------------------
(* Slugs and ids.  Typed text is a sequence of words and of "~", which     *)
(* stands for a run of characters a slug cannot hold.                      *)

SanitizeSlug(typed) ==
    LET words == SelectSeq(typed, LAMBDA t : t # "~")
    IN SubSeq(words, 1, Min({Len(words), SlugWords}))

Carriers(lines) == {i \in DOMAIN lines : lines[i].kind \in {"atom", "open"}}
ExistingIds(lines) == OpenIds(lines, Carriers(lines))

\* The attributes a rename writes: an empty slug removes the attribute.
Renamed(attrs, typed) ==
    LET slug == SanitizeSlug(typed)
    IN IF slug = <<>> THEN Without(attrs, {"slug"}) ELSE With(attrs, "slug", slug)

-----------------------------------------------------------------------------
(* Groups: two marker lines put against a run of units, renamed in place,  *)
(* and removed again with any blank line their removal doubles.            *)

\* The positions of a selection; the selection is contiguous when they are.
Positions(units, keys) == {n \in DOMAIN units : units[n].key \in keys}
IsContiguous(positions) ==
    positions # {} /\ Max(positions) - Min(positions) = Cardinality(positions) - 1

MarkRun(lines, units, at, attrs) ==
    LET from == units[Min(at)].first
        to == units[Max(at)].last
    IN SubSeq(lines, 1, from - 1) \o <<Open(attrs)>> \o SubSeq(lines, from, to) \o <<Close>>
         \o SubSeq(lines, to + 1, Len(lines))

NewGroup(groupId, typed) == Renamed([n \in {"id"} |-> groupId], typed)

MarkUnits(lines, units, keys, groupId, typed) ==
    LET at == Positions(units, keys)
    IN IF \/ Cardinality(keys) < 2
          \/ groupId \in ExistingIds(lines)
          \/ Cardinality(at) # Cardinality(keys)
          \/ \E n \in at : units[n].kind = "group"
          \/ ~IsContiguous(at)
         THEN Refused
         ELSE Rewritten(MarkRun(lines, units, at, NewGroup(groupId, typed)))

InsertGroupMarkers(lines, keys, groupId, typed) ==
    MarkUnits(lines, ComputeUnits(lines), keys, groupId, typed)

SetGroupSlug(lines, groupId, typed) ==
    LET at == FirstOf({i \in DOMAIN lines : IsOpen(lines[i], groupId)})
    IN IF at = 0 THEN Refused
       ELSE Rewritten([lines EXCEPT ![at] = Open(Renamed(@.attrs, typed))])

\* Mutant: one blank line above is enough to take the line below as well.
RemoveLineAndNext(lines, at) ==
    LET out == RemoveAt(lines, at)
    IN IF at > 1 /\ at <= Len(out) /\ IsBlank(out[at - 1]) THEN RemoveAt(out, at) ELSE out

RemoveLineCollapsingSeam(lines, at) ==
    LET out == RemoveAt(lines, at)
    IN IF at > 1 /\ at <= Len(out) /\ IsBlank(out[at - 1]) /\ IsBlank(out[at])
         THEN RemoveAt(out, at) ELSE out

UnmarkUnit(lines, units, n) ==
    IF n = 0 \/ lines[units[n].last].kind # "close" THEN Refused
    ELSE Rewritten(RemoveLineCollapsingSeam(
                     RemoveLineCollapsingSeam(lines, units[n].last), units[n].first))

UngroupIn(lines, units, groupKey) == UnmarkUnit(lines, units, FindUnit(units, groupKey))
RemoveGroupMarkers(lines, groupKey) == UngroupIn(lines, ComputeUnits(lines), groupKey)

\* refuseFaultedGroup: a marker without a usable identity is never rewritten.
GroupFault(lines, groupKey) ==
    \E u \in Range(ComputeUnits(lines)) : u.key = groupKey /\ u.fault # "none"

-----------------------------------------------------------------------------
(* One atom: its directive's attributes, its block, its digest. *)

DirectiveLine(lines, id) == FirstOf({i \in DOMAIN lines : IsAtom(lines[i], id)})

\* The panel's attribute editor: every attribute as it was sent, but the id.
SaveAttrs(lines, id, requested) ==
    LET at == DirectiveLine(lines, id)
        cleaned == Renamed(Without(requested, {"id"}), SlugIn(requested))
    IN IF at = 0 THEN Refused
       ELSE Rewritten([lines EXCEPT ![at] = AtomTag(With(cleaned, "id", id))])

\* The inline form's refusals: a name that is not one, a name sent twice, a
\* value with directive syntax.  "rows" is what the form sends, in order.
RowsRefused(rows) ==
    LET named == {k \in DOMAIN rows : rows[k].name \notin {"", "id"}}
    IN \/ \E k \in named : ~rows[k].valid
       \/ \E m, n \in named : m # n /\ rows[m].name = rows[n].name

SetAtomAttrs(lines, id, rows) ==
    LET names == {r.name : r \in Range(rows)} \ {"", "id"}
        requested == [n \in names |-> rows[FirstOf({k \in DOMAIN rows : rows[k].name = n})].value]
    IN IF RowsRefused(rows) THEN Refused ELSE SaveAttrs(lines, id, requested)

SetAtomSlug(lines, id, typed) ==
    LET at == DirectiveLine(lines, id)
    IN IF at = 0 THEN Refused
       ELSE Rewritten([lines EXCEPT ![at] = AtomTag(Renamed(@.attrs, typed))])

\* Mutant: a directive without a blank line above it is taken for text.
BlockBelowToBlank(lines, at) ==
    Max({j \in at..Len(lines) : \A k \in (at + 1)..j : ~IsBlank(lines[k])})

\* The lines below a directive, up to the first blank or directive line.
BlockBelow(lines, at) ==
    Max({j \in at..Len(lines) : \A k \in (at + 1)..j : ~IsBoundary(lines[k])})

Trimmed(new) ==
    LET full == {k \in DOMAIN new : ~IsBlank(new[k])}
    IN IF full = {} THEN <<>> ELSE SubSeq(new, Min(full), Max(full))

ReplaceAtomBlock(lines, id, new) ==
    LET at == DirectiveLine(lines, id)
        block == Trimmed(new)
    IN IF \/ at = 0
          \/ block = <<>>
          \/ \E k \in DOMAIN block : LooksLikeDirectiveLine(block[k])
         THEN Refused
         ELSE Rewritten(SubSeq(lines, 1, at) \o block
                        \o SubSeq(lines, BlockBelow(lines, at) + 1, Len(lines)))

\* "entries" gives the digest to write on each directive that carries the id.
SetAtomDigests(lines, entries) ==
    LET Wanted(l) == l.kind = "atom" /\ HasAttr(l, "id") /\ l.attrs["id"] \in DOMAIN entries
    IN IF ~\E i \in DOMAIN lines : Wanted(lines[i]) THEN Refused
       ELSE Rewritten([i \in DOMAIN lines |->
              IF Wanted(lines[i])
                THEN AtomTag(With(lines[i].attrs, "digest", entries[lines[i].attrs["id"]]))
                ELSE lines[i]])

\* Mutant: every entry gets the digest of the first block.
ReviewEntriesOfFirst(lines, ids) ==
    [id \in ids |-> DigestOfBlock(ParseAtoms(lines)[1].text)]

\* The entries of a review: the checkable explicit atoms among those asked
\* for, each with the digest of the block it has in this text.
EntriesOf(atoms, ids) ==
    LET Drawn(id) == LastOf({n \in DOMAIN atoms : atoms[n].id = <<"atom", id>>})
        granted == {id \in ids : Drawn(id) # 0 /\ atoms[Drawn(id)].checkable}
    IN [id \in granted |-> DigestOfBlock(atoms[Drawn(id)].text)]
ReviewEntries(lines, ids) == EntriesOf(ParseAtoms(lines), ids)

-----------------------------------------------------------------------------
(* minimalEdit: the smallest single replacement between two texts, here in *)
(* whole lines; "from" and "to" are positions of the old text.             *)

CommonPrefix(a, b) == Max({n \in 0..Min({Len(a), Len(b)}) : SubSeq(a, 1, n) = SubSeq(b, 1, n)})
CommonSuffix(a, b, skip) ==
    Max({n \in 0..(Min({Len(a), Len(b)}) - skip) :
           SubSeq(a, Len(a) - n + 1, Len(a)) = SubSeq(b, Len(b) - n + 1, Len(b))})

MinimalEdit(old, new) ==
    LET from == CommonPrefix(old, new)
        kept == CommonSuffix(old, new, from)
    IN [from |-> from, to |-> Len(old) - kept,
        insert |-> SubSeq(new, from + 1, Len(new) - kept)]

\* editor.replaceRange: the editor refuses a range outside its text.
ReplaceRange(text, edit) ==
    SubSeq(text, 1, edit.from) \o edit.insert \o SubSeq(text, edit.to + 1, Len(text))
InRange(text, edit) == edit.to <= Len(text)

=============================================================================
