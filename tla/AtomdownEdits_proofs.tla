-------------------------- MODULE AtomdownEdits_proofs --------------------------
(***************************************************************************)
(* Theorems about the two Atomdown views (AtomdownEdits), for any texts,    *)
(* names, group ids and number of edits: the texts, cards and pending edits *)
(* stay consistent, and what an edit that lands does to the page is what    *)
(* was asked for.                                                           *)
(***************************************************************************)
EXTENDS AtomdownDocument_proofs

----------------------------------------
(* What a worker's edit was made for *)

Makes(answer, new) == answer = Rewritten(new)

\* The new text is what the request makes of the old one.
Made(r, old, new) ==
    \/ /\ r.op = "reorder" /\ r.place # "start"
       /\ r.target = None \/ r.place \in {"before", "after"}
       /\ Makes(ReorderUnit(old, r.moved, r.target, r.place), new)
    \/ /\ r.op = "group" /\ IsFiniteSet(r.keys) /\ \A k \in r.keys : ~IsGroupKey(k)
       /\ \E given : Makes(InsertGroupMarkers(old, r.keys, r.id, given), new)
    \/ /\ r.op = "ungroup" /\ IsGroupKey(r.key) /\ ~GroupFault(old, r.key)
       /\ Makes(RemoveGroupMarkers(old, r.key), new)
    \/ /\ r.op = "name"
       /\ \E id, given : \/ Makes(SetAtomSlug(old, id, given), new)
                         \/ Makes(SetGroupSlug(old, id, given), new)
    \/ /\ r.op = "attrs"
       /\ \E sent : /\ Makes(SaveAttrs(old, r.id, sent), new)
                    /\ Attributes(Saved(r.id, sent))
                    /\ \A i \in 1..Len(old) : IsAtom(old[i], r.id) =>
                         Kept(Saved(r.id, sent)) = Kept(old[i].attrs)
    \/ /\ r.op = "block" /\ IsSeq(r.text)
       /\ Makes(ReplaceAtomBlock(old, r.id, r.text), new)
    \/ /\ r.op = "review"
       /\ Makes(SetAtomDigests(old, ReviewEntries(old, r.ids)), new)

\* Some consistent set of lines has all those of S and of a text.
Extends(S, new) == \E T : S \subseteq T /\ Consistent(T) /\ Over(new, T)

\* A rewrite whose lines agree with those that are there.
LEMMA ExtendBy ==
    ASSUME NEW S, Consistent(S), NEW T, \A x \in T : Adds(S, x), NEW new, Over(new, S \cup T)
    PROVE  Extends(S, new)
BY StaysConsistent DEF Extends

\* Blank lines and closing markers have no attributes to disagree about.
LEMMA PlainLines == Adds({}, Blank) /\ Adds({}, Close) /\ Blank.kind = "blank" /\ Close.kind = "close"
BY DEF Adds, Blank, Close

\* A move keeps directives with one id consistent.
LEMMA ExtendReorder ==
    ASSUME NEW S, Consistent(S), NEW old, IsSeq(old), Range(old) \subseteq S, NEW new,
           NEW moved, NEW target, NEW place, place # "start", ReorderUnit(old, moved, target, place) = Rewritten(new)
    PROVE  Extends(S, new)
<1> DEFINE T == {Blank}
<1>1. \A x \in T : Adds(S, x)
  BY DEF Adds, Blank
<1>2. Range(old) \subseteq S \cup T /\ Blank \in S \cup T
  OBVIOUS
<1> HIDE DEF T
<1>3. Over(new, S \cup T)
  BY <1>2, OverReorder
<1> QED
  BY <1>1, <1>3, ExtendBy

\* A new group's attributes are well formed.
LEMMA NewAttributes ==
    ASSUME NEW id, NEW given
    PROVE  Attributes(NewGroup(id, given))
<1> DEFINE a == [n \in {"id"} |-> id]
<1>1. DOMAIN a = {"id"} /\ a = [n \in DOMAIN a |-> a[n]]
  OBVIOUS
<1> HIDE DEF a
<1>2. IsFiniteSet(DOMAIN a) /\ "" \notin DOMAIN a
  BY <1>1, FS_Singleton
<1>3. Attributes(a)
  BY <1>1, <1>2 DEF Attributes
<1>4. Attributes(Renamed(a, given))
  BY <1>3, RenamedFacts
<1> QED
  BY <1>4 DEF NewGroup, a

\* Grouping keeps directives with one id consistent.
LEMMA ExtendGroup ==
    ASSUME NEW S, Consistent(S), NEW old, IsSeq(old), Range(old) \subseteq S, NEW new,
           NEW keys, NEW id, NEW given, InsertGroupMarkers(old, keys, id, given) = Rewritten(new)
    PROVE  Extends(S, new)
<1> DEFINE o == Open(NewGroup(id, given))
           T == {o, Close}
<1>1. Adds(S, o) /\ Adds(S, Close)
  <2>1. o.kind = "open" /\ o.attrs = NewGroup(id, given) /\ Close.kind = "close"
    BY DEF Open, Close
  <2> QED
    BY <2>1, NewAttributes DEF Adds
<1>2. Range(old) \subseteq S \cup T /\ o \in S \cup T /\ Close \in S \cup T /\ \A x \in T : Adds(S, x)
  BY <1>1
<1> HIDE DEF T
<1>3. Over(new, S \cup T)
  BY <1>2, OverGroup
<1> QED
  BY <1>2, <1>3, ExtendBy

\* Ungrouping keeps directives with one id consistent.
LEMMA ExtendUngroup ==
    ASSUME NEW S, Consistent(S), NEW old, IsSeq(old), Range(old) \subseteq S, NEW new,
           NEW key, IsGroupKey(key), RemoveGroupMarkers(old, key) = Rewritten(new)
    PROVE  Extends(S, new)
BY OverUngroup DEF Extends

\* A directive's line replaced by one with the same id that says the same.
LEMMA ExtendAtom ==
    ASSUME NEW S, Consistent(S), NEW old, IsSeq(old), Range(old) \subseteq S,
           NEW at \in 1..Len(old), NEW id, IsAtom(old[at], id),
           NEW attrs, Attributes(attrs), "id" \in DOMAIN attrs, attrs["id"] = id,
           Kept(attrs) = Kept(old[at].attrs)
    PROVE  Extends(S, Patched(old, at, AtomTag(attrs)))
<1> DEFINE x == AtomTag(attrs)
           T == {x}
<1>1. x.kind = "atom" /\ x.attrs = attrs /\ HasAttr(x, "id")
  BY DEF AtomTag, HasAttr
<1>2. old[at] \in S
  BY SeqDomain DEF Range
<1>3. Adds(S, x)
  BY <1>1, <1>2 DEF Adds, IsAtom
<1> HIDE DEF x
<1>4. Range(old) \subseteq S \cup T /\ x \in S \cup T /\ \A y \in T : Adds(S, y)
  BY <1>3
<1> HIDE DEF T
<1>5. Over(Patched(old, at, x), S \cup T)
  BY <1>4, PatchedFacts
<1>6. Extends(S, Patched(old, at, x))
  BY <1>4, <1>5, ExtendBy
<1> QED
  BY <1>6 DEF x

\* A rename keeps directives with one id consistent.
LEMMA ExtendName ==
    ASSUME NEW S, Consistent(S), NEW old, IsSeq(old), Range(old) \subseteq S, NEW new,
           NEW id, NEW given,
           SetAtomSlug(old, id, given) = Rewritten(new) \/ SetGroupSlug(old, id, given) = Rewritten(new)
    PROVE  Extends(S, new)
<1>0. ASSUME NEW at \in 1..Len(old), old[at].kind \in {"atom", "open"} PROVE Attributes(old[at].attrs)
  <2>1. old[at] \in S
    BY SeqDomain DEF Range
  <2> QED
    BY <1>0, <2>1 DEF Consistent
<1>1. CASE SetAtomSlug(old, id, given) = Rewritten(new)
  <2>1. PICK at \in 1..Len(old) :
             IsAtom(old[at], id) /\ new = Patched(old, at, AtomTag(Renamed(old[at].attrs, given)))
    BY <1>1, AtomNameIs
  <2> DEFINE a == old[at].attrs
             b == Renamed(a, given)
  <2>2. Attributes(a) /\ "id" \in DOMAIN a /\ a["id"] = id
    BY <1>0, <2>1 DEF IsAtom, HasAttr
  <2>3. Attributes(b) /\ "id" \in DOMAIN b /\ b["id"] = id /\ Kept(b) = Kept(a)
    <3> HIDE DEF a
    <3> QED
      BY <2>2, RenamedFacts
  <2> HIDE DEF b
  <2> QED
    BY <2>1, <2>3, ExtendAtom DEF b
<1>2. CASE SetGroupSlug(old, id, given) = Rewritten(new)
  <2>1. PICK at \in 1..Len(old) :
             IsOpen(old[at], id) /\ new = Patched(old, at, Open(Renamed(old[at].attrs, given)))
    BY <1>2, GroupNameIs
  <2> DEFINE b == Renamed(old[at].attrs, given)
             x == Open(b)
             T == {x}
  <2>2. Attributes(b)
    BY <1>0, <2>1, RenamedFacts DEF IsOpen
  <2> HIDE DEF b
  <2>3. x.kind = "open" /\ x.attrs = b
    BY DEF Open
  <2>4. Adds(S, x)
    BY <2>2, <2>3 DEF Adds
  <2> HIDE DEF x
  <2>5. Range(old) \subseteq S \cup T /\ x \in S \cup T /\ \A y \in T : Adds(S, y)
    BY <2>4
  <2> HIDE DEF T
  <2>6. Over(Patched(old, at, x), S \cup T)
    BY <2>5, PatchedFacts
  <2>7. new = Patched(old, at, x)
    BY <2>1 DEF x, b
  <2> QED
    BY <2>5, <2>6, <2>7, ExtendBy
<1> QED
  BY <1>1, <1>2

\* saveAttrs: what is kept is what was sent.
LEMMA SavedFacts ==
    ASSUME NEW id, NEW sent
    PROVE  /\ "id" \in DOMAIN Saved(id, sent) /\ Saved(id, sent)["id"] = id
           /\ Attributes(sent) => Attributes(Saved(id, sent))
           /\ \A a : (/\ "id" \in DOMAIN a /\ a["id"] = id
                      /\ DOMAIN sent \ {"id", "slug", "digest"} = DOMAIN a \ {"id", "slug", "digest"}
                      /\ \A n \in DOMAIN a \ {"id", "slug", "digest"} : sent[n] = a[n])
                     => Kept(Saved(id, sent)) = Kept(a)
<1> DEFINE w == Without(sent, {"id"})
           r == Renamed(w, SlugIn(sent))
           s == Saved(id, sent)
<1>1. s = With(r, "id", id)
  BY DEF Saved
<1>2. DOMAIN w = DOMAIN sent \ {"id"} /\ (\A n \in DOMAIN sent \ {"id"} : w[n] = sent[n]) /\ (Attributes(sent) => Attributes(w))
  BY WithoutFacts
<1> HIDE DEF w
<1>3. Kept(r) = Kept(w) /\ (Attributes(w) => Attributes(r))
  BY RenamedFacts
<1> HIDE DEF r
<1>4. DOMAIN r \ {"slug", "digest"} = DOMAIN w \ {"slug", "digest"} /\ \A n \in DOMAIN r \ {"slug", "digest"} : r[n] = w[n]
  BY <1>3, KeptIs
<1> HIDE DEF s
<1>5. DOMAIN s = DOMAIN r \cup {"id"} /\ s["id"] = id
  BY <1>1 DEF With
<1>6. Attributes(r) => Attributes(s)
  <2>1. "id" # ""
    OBVIOUS
  <2> QED
    BY <1>1, <2>1, WithFacts
<1>7. \A n \in DOMAIN r \ {"id"} : s[n] = r[n]
  BY <1>1 DEF With
<1>8. ASSUME NEW a, "id" \in DOMAIN a, a["id"] = id,
             DOMAIN sent \ {"id", "slug", "digest"} = DOMAIN a \ {"id", "slug", "digest"},
             \A n \in DOMAIN a \ {"id", "slug", "digest"} : sent[n] = a[n]
      PROVE  Kept(s) = Kept(a)
  <2>1. DOMAIN s \ {"slug", "digest"} = (DOMAIN sent \ {"id", "slug", "digest"}) \cup {"id"}
    BY <1>2, <1>4, <1>5
  <2>2. DOMAIN a \ {"slug", "digest"} = (DOMAIN a \ {"id", "slug", "digest"}) \cup {"id"}
    BY <1>8
  <2>3. DOMAIN s \ {"slug", "digest"} = DOMAIN a \ {"slug", "digest"}
    BY <1>8, <2>1, <2>2
  <2>4. ASSUME NEW n \in DOMAIN s \ {"slug", "digest"} PROVE s[n] = a[n]
    <3>1. CASE n = "id"
      BY <1>5, <1>8, <3>1
    <3>2. CASE n # "id"
      <4>1. n \in DOMAIN sent \ {"id", "slug", "digest"} /\ n \in DOMAIN a \ {"id", "slug", "digest"}
        BY <1>8, <2>1, <3>2
      <4>2. n \in DOMAIN r \ {"slug", "digest"} /\ n \in DOMAIN r \ {"id"}
        BY <1>5, <2>4, <3>2
      <4>3. s[n] = r[n] /\ r[n] = w[n] /\ w[n] = sent[n] /\ sent[n] = a[n]
        BY <1>2, <1>4, <1>7, <1>8, <4>1, <4>2
      <4> QED
        BY <4>3
    <3> QED
      BY <3>1, <3>2
  <2> QED
    BY <2>3, <2>4, KeptSame
<1> QED
  BY <1>2, <1>3, <1>5, <1>6, <1>8 DEF s

\* An edit of a card's text keeps directives with one id consistent.
LEMMA ExtendBlock ==
    ASSUME NEW S, Consistent(S), NEW old, IsSeq(old), Range(old) \subseteq S, NEW new,
           NEW id, NEW page, IsSeq(page), ReplaceAtomBlock(old, id, page) = Rewritten(new)
    PROVE  Extends(S, new)
<1> DEFINE block == Trimmed(page)
           T == Range(block)
<1>1. PICK at \in 1..Len(old) : /\ new = Rebuilt(old, at, block)
                                /\ \A k \in 1..Len(block) : ~LooksLikeDirectiveLine(block[k])
  BY BlockIs
<1>2. IsSeq(block) /\ DOMAIN block = 1..Len(block)
  BY TrimmedFacts
<1> HIDE DEF block
<1>3. ASSUME NEW x \in T PROVE Adds(S, x)
  <2>1. PICK k \in 1..Len(block) : x = block[k]
    BY <1>2 DEF Range
  <2> QED
    BY <1>1, <2>1 DEF Adds, LooksLikeDirectiveLine
<1>4. Range(old) \subseteq S \cup T /\ Range(block) \subseteq S \cup T
  OBVIOUS
<1> HIDE DEF T
<1>5. Over(new, S \cup T)
  BY <1>1, <1>2, <1>4, RebuiltFacts
<1> QED
  BY <1>3, <1>5, ExtendBy

\* A review keeps directives with one id consistent.
LEMMA ExtendReview ==
    ASSUME NEW S, Consistent(S), NEW old, IsSeq(old), Range(old) \subseteq S, NEW new,
           NEW entries, SetAtomDigests(old, entries) = Rewritten(new)
    PROVE  Extends(S, new)
<1> DEFINE T == Range(new) \ S
<1>1. IsSeq(new) /\ Len(new) = Len(old) /\ \A i \in 1..Len(old) : new[i] = Stamped(old[i], entries)
  BY ReviewIs
<1>2. ASSUME NEW x \in T PROVE Adds(S, x)
  <2>1. PICK i \in 1..Len(old) : x = new[i]
    BY <1>1, SeqDomain DEF Range
  <2>2. old[i] \in S
    BY SeqDomain DEF Range
  <2> DEFINE l == old[i]
  <2>3. x # l
    BY <2>2
  <2>4. /\ l.kind = "atom" /\ HasAttr(l, "id")
        /\ x = AtomTag(With(l.attrs, "digest", entries[l.attrs["id"]]))
    BY <1>1, <2>1, <2>3 DEF Stamped
  <2>5. Attributes(l.attrs)
    BY <2>2, <2>4 DEF Consistent
  <2> DEFINE a == l.attrs
             b == With(a, "digest", entries[a["id"]])
  <2>6. "id" \in DOMAIN a
    BY <2>4 DEF HasAttr
  <2>7. DOMAIN b = DOMAIN a \cup {"digest"}
    BY WithFacts
  <2>8. \A n \in DOMAIN a \ {"digest"} : b[n] = a[n]
    BY DEF With
  <2>9. Attributes(b)
    <3>1. "digest" # ""
      OBVIOUS
    <3> HIDE DEF a
    <3>2. Attributes(a)
      BY <2>5 DEF a
    <3> QED
      BY <3>1, <3>2, WithFacts
  <2>10. x = AtomTag(b)
    BY <2>4
  <2> HIDE DEF b
  <2>11. x.kind = "atom" /\ x.attrs = b
    BY <2>10 DEF AtomTag
  <2>12. Kept(a) = Kept(b)
    <3> HIDE DEF a
    <3> QED
      BY <2>7, <2>8, KeptSame
  <2>13. "id" \in DOMAIN b /\ b["id"] = a["id"]
    BY <2>6, <2>7, <2>8
  <2> QED
    BY <2>2, <2>4, <2>9, <2>11, <2>12, <2>13 DEF Adds, HasAttr
<1>3. Range(new) \subseteq S \cup T
  OBVIOUS
<1> HIDE DEF T
<1>4. Over(new, S \cup T)
  BY <1>1, <1>3, OverIs
<1> QED
  BY <1>2, <1>4, ExtendBy

\* Whatever a request makes, its lines are consistent with those there were.
LEMMA ExtendMade ==
    ASSUME NEW S, Consistent(S), NEW old, IsSeq(old), Range(old) \subseteq S,
           NEW r, NEW new, Made(r, old, new)
    PROVE  Extends(S, new)
<1>1. CASE r.op = "reorder"
  <2>1. r.place # "start" /\ ReorderUnit(old, r.moved, r.target, r.place) = Rewritten(new)
    BY <1>1 DEF Made, Makes
  <2> QED
    BY <2>1, ExtendReorder
<1>2. CASE r.op = "group"
  <2>1. PICK given : InsertGroupMarkers(old, r.keys, r.id, given) = Rewritten(new)
    BY <1>2 DEF Made, Makes
  <2> QED
    BY <2>1, ExtendGroup
<1>3. CASE r.op = "ungroup"
  <2>1. IsGroupKey(r.key) /\ RemoveGroupMarkers(old, r.key) = Rewritten(new)
    BY <1>3 DEF Made, Makes
  <2> QED
    BY <2>1, ExtendUngroup
<1>4. CASE r.op = "name"
  <2>1. PICK id, given : SetAtomSlug(old, id, given) = Rewritten(new) \/ SetGroupSlug(old, id, given) = Rewritten(new)
    BY <1>4 DEF Made, Makes
  <2> QED
    BY <2>1, ExtendName
<1>5. CASE r.op = "attrs"
  <2>1. PICK sent : /\ SaveAttrs(old, r.id, sent) = Rewritten(new)
                    /\ Attributes(Saved(r.id, sent))
                    /\ \A i \in 1..Len(old) : IsAtom(old[i], r.id) =>
                         Kept(Saved(r.id, sent)) = Kept(old[i].attrs)
    BY <1>5 DEF Made, Makes
  <2> DEFINE id == r.id
             attrs == Saved(id, sent)
  <2>2. PICK at \in 1..Len(old) : IsAtom(old[at], id) /\ new = Patched(old, at, AtomTag(attrs))
    BY <2>1, SaveIs
  <2>3. Attributes(attrs) /\ "id" \in DOMAIN attrs /\ attrs["id"] = id /\ Kept(attrs) = Kept(old[at].attrs)
    BY <2>1, <2>2, SavedFacts
  <2> HIDE DEF attrs, id
  <2> QED
    BY <2>2, <2>3, ExtendAtom
<1>6. CASE r.op = "block"
  <2>1. IsSeq(r.text) /\ ReplaceAtomBlock(old, r.id, r.text) = Rewritten(new)
    BY <1>6 DEF Made, Makes
  <2> QED
    BY <2>1, ExtendBlock
<1>7. CASE r.op = "review"
  <2>1. SetAtomDigests(old, ReviewEntries(old, r.ids)) = Rewritten(new)
    BY <1>7 DEF Made, Makes
  <2> QED
    BY <2>1, ExtendReview
<1> QED
  BY <1>1, <1>2, <1>3, <1>4, <1>5, <1>6, <1>7 DEF Made

----------------------------------------
(* The rows of the inline view's form *)

\* SetToSeq lists every element.
LEMMA ListedAll ==
    ASSUME NEW D, IsFiniteSet(D)
    PROVE  /\ Cardinality(D) \in Nat
           /\ DOMAIN SetToSeq(D) = 1..Cardinality(D)
           /\ \A k \in 1..Cardinality(D) : SetToSeq(D)[k] \in D
           /\ \A d \in D : \E k \in 1..Cardinality(D) : SetToSeq(D)[k] = d
<1> DEFINE n == Cardinality(D)
           f == SetToSeq(D)
<1>1. n \in Nat
  BY FS_CardinalityType
<1>2. ExistsBijection(1..n, D)
  BY FS_CardinalityType
<1>3. PICK h \in Bijection(1..n, D) : TRUE
  BY <1>2 DEF ExistsBijection
<1>4. h \in [1..n -> D] /\ IsInjective(h)
  BY <1>3 DEF Bijection, Injection
<1>5. f \in [1..n -> D] /\ IsInjective(f)
  BY <1>4 DEF SetToSeq
<1> HIDE DEF f
<1>7. f \in Injection(1..n, D)
  BY <1>5 DEF Injection
<1>8. IsFiniteSet(1..n) /\ Cardinality(1..n) = n
  BY <1>1, FS_Interval
<1>9. f \in Surjection(1..n, D)
  BY <1>7, <1>8, FS_Injection
<1>10. \A d \in D : \E k \in 1..n : f[k] = d
  BY <1>9 DEF Surjection
<1> QED
  BY <1>1, <1>5, <1>10 DEF f

\* What SetAtomAttrs saves of the rows it is sent.
Requests(rows) ==
    [n \in {r.name : r \in Range(rows)} \ {"", "id"} |->
       rows[FirstOf({k \in DOMAIN rows : rows[k].name = n})].value]

\* Rows that a form can send and that are not refused ask for the attributes there
\* are, but for the name.
LEMMA RowsKeep ==
    ASSUME NEW attrs, Attributes(attrs), NEW given, NEW rows \in Rows(attrs, given), ~RowsRefused(rows)
    PROVE  /\ Attributes(Requests(rows))
           /\ DOMAIN Requests(rows) \ {"id", "slug", "digest"} = DOMAIN attrs \ {"id", "slug", "digest"}
           /\ \A n \in DOMAIN attrs \ {"id", "slug", "digest"} : Requests(rows)[n] = attrs[n]
<1> DEFINE D == DOMAIN attrs \ {"id", "slug"}
           names == SetToSeq(D)
           m == Cardinality(D)
           row(name, value) == [name |-> name, value |-> value, valid |-> name # "a b"]
           kept == [n \in DOMAIN names |-> row(names[n], attrs[names[n]])]
           one == <<row("slug", given)>>
           two == <<row("slug", given), row("slug", <<>>)>>
           req == Requests(rows)
<1>1. IsFiniteSet(D) /\ "" \notin D /\ "id" \notin D /\ "slug" \notin D
  BY FS_Difference DEF Attributes
<1> HIDE DEF D
<1>2. /\ m \in Nat /\ DOMAIN names = 1..m
      /\ \A k \in 1..m : names[k] \in D
      /\ \A d \in D : \E k \in 1..m : names[k] = d
  BY <1>1, ListedAll
<1> HIDE DEF names, m
<1>3. IsSeq(kept) /\ Len(kept) = m /\ \A k \in 1..m : kept[k] = row(names[k], attrs[names[k]])
  <2>1. kept = [k \in 1..m |-> kept[k]] /\ \A k \in 1..m : kept[k] = row(names[k], attrs[names[k]])
    BY <1>2
  <2> HIDE DEF kept
  <2> QED
    BY <1>2, <2>1, FunctionSeq
<1>4. rows = kept \o one \/ rows = kept \o two \/ rows = Append(kept, row("a b", "v"))
  BY DEF Rows, D, names
<1> HIDE DEF kept
<1>5. IsSeq(one) /\ Len(one) = 1 /\ one[1] = row("slug", given)
  BY Single
<1>6. IsSeq(two) /\ Len(two) = 2 /\ two[1] = row("slug", given) /\ two[2] = row("slug", <<>>)
  <2>1. two \in Seq({row("slug", given), row("slug", <<>>)})
    OBVIOUS
  <2> QED
    BY <2>1, SomeSeq
<1>7. rows # Append(kept, row("a b", "v"))
  <2> DEFINE bad == row("a b", "v")
  <2>1. ASSUME rows = kept \o <<bad>> PROVE FALSE
    <3>0. IsSeq(<<bad>>) /\ Len(<<bad>>) = 1 /\ <<bad>>[1] = bad
      BY Single
    <3>b. bad.name = "a b" /\ bad.valid = FALSE
      OBVIOUS
    <3> HIDE DEF bad
    <3> DEFINE last == <<bad>>
    <3> HIDE DEF last
    <3>1. IsSeq(kept) /\ IsSeq(last)
      BY <1>3, <3>0 DEF last
    <3>2. IsSeq(kept \o last) /\ Len(kept \o last) = m + 1 /\ (kept \o last)[m + 1] = last[1]
      <4>1. Len(last) = 1 /\ 1 \in 1..Len(last)
        BY <3>0 DEF last
      <4>2. Len(kept) = m
        BY <1>3
      <4>3. /\ IsSeq(kept \o last) /\ Len(kept \o last) = Len(kept) + Len(last)
            /\ \A k \in 1..Len(last) : (kept \o last)[Len(kept) + k] = last[k]
        BY <3>1, Joining
      <4> QED
        BY <4>1, <4>2, <4>3
    <3>3. rows = kept \o last /\ last[1] = bad
      BY <2>1, <3>0 DEF last
    <3>4. m + 1 \in DOMAIN rows /\ rows[m + 1] = bad
      BY <1>2, <3>2, <3>3, SeqDomain
    <3>5. RowsRefused(rows)
      BY <3>b, <3>4 DEF RowsRefused
    <3> QED
      BY <3>5
  <2>2. Append(kept, bad) = kept \o <<bad>>
    <3>1. kept \in Seq(Range(kept) \cup {bad}) /\ bad \in Range(kept) \cup {bad}
      BY <1>3, SeqDomain
    <3> HIDE DEF bad
    <3> QED
      BY <3>1, AppendIsConcat
  <2> QED
    BY <2>1, <2>2
<1>8. \E z : /\ IsSeq(z) /\ Len(z) \in Nat /\ Len(z) # 0 /\ rows = kept \o z
             /\ \A k \in 1..Len(z) : z[k].name = "slug"
  <2>1. CASE rows = kept \o one
    <3>1. \A k \in 1..Len(one) : k = 1
      BY <1>5
    <3>2. one[1].name = "slug"
      OBVIOUS
    <3>3. /\ IsSeq(one) /\ Len(one) \in Nat /\ Len(one) # 0 /\ rows = kept \o one
          /\ \A k \in 1..Len(one) : one[k].name = "slug"
      <4> HIDE DEF one
      <4>1. \A k \in 1..Len(one) : one[k].name = "slug"
        BY <3>1, <3>2
      <4> QED
        BY <1>5, <2>1, <4>1
    <3> HIDE DEF one
    <3> QED
      BY <3>3
  <2>2. CASE rows = kept \o two
    <3>1. \A k \in 1..Len(two) : k = 1 \/ k = 2
      BY <1>6
    <3>2. two[1].name = "slug" /\ two[2].name = "slug"
      BY <1>6
    <3>3. /\ IsSeq(two) /\ Len(two) \in Nat /\ Len(two) # 0 /\ rows = kept \o two
          /\ \A k \in 1..Len(two) : two[k].name = "slug"
      <4> HIDE DEF two
      <4>1. \A k \in 1..Len(two) : two[k].name = "slug"
        BY <3>1, <3>2
      <4> QED
        BY <1>6, <2>2, <4>1
    <3> HIDE DEF two
    <3> QED
      BY <3>3
  <2> QED
    BY <1>4, <1>7, <2>1, <2>2
<1>9. PICK z : /\ IsSeq(z) /\ Len(z) \in Nat /\ Len(z) # 0 /\ rows = kept \o z
               /\ \A k \in 1..Len(z) : z[k].name = "slug"
  BY <1>8
<1>10. /\ IsSeq(rows) /\ Len(rows) = m + Len(z)
       /\ \A k \in 1..m : rows[k] = kept[k]
       /\ \A k \in 1..Len(z) : rows[m + k] = z[k]
  <2>1. IsSeq(kept) /\ IsSeq(z)
    BY <1>3, <1>9
  <2>2. Len(kept) = m /\ rows = kept \o z
    BY <1>3, <1>9
  <2>3. /\ IsSeq(kept \o z) /\ Len(kept \o z) = Len(kept) + Len(z)
        /\ \A k \in 1..Len(kept) : (kept \o z)[k] = kept[k]
        /\ \A k \in 1..Len(z) : (kept \o z)[Len(kept) + k] = z[k]
    BY <2>1, Joining
  <2> QED
    BY <2>2, <2>3
<1>11. /\ DOMAIN rows = 1..(m + Len(z))
       /\ \A k \in 1..m : rows[k].name = names[k] /\ rows[k].value = attrs[names[k]]
       /\ \A k \in (m + 1)..(m + Len(z)) : rows[k].name = "slug"
  <2>1. DOMAIN rows = 1..(m + Len(z))
    BY <1>10, SeqDomain
  <2>2. \A k \in 1..m : rows[k].name = names[k] /\ rows[k].value = attrs[names[k]]
    <3>1. \A name, value : row(name, value).name = name /\ row(name, value).value = value
      OBVIOUS
    <3> HIDE DEF row
    <3> QED
      BY <1>3, <1>10, <3>1
  <2>3. ASSUME NEW k \in (m + 1)..(m + Len(z)) PROVE rows[k].name = "slug"
    <3>1. k - m \in 1..Len(z) /\ m + (k - m) = k
      BY <1>2, <1>9
    <3>2. rows[m + (k - m)] = z[k - m]
      BY <1>10, <3>1
    <3>3. z[k - m].name = "slug"
      BY <1>9, <3>1
    <3> QED
      BY <3>1, <3>2, <3>3
  <2> QED
    BY <2>1, <2>2, <2>3
<1>12. {r.name : r \in Range(rows)} = D \cup {"slug"}
  <2>1. ASSUME NEW r \in Range(rows) PROVE r.name \in D \cup {"slug"}
    <3>1. PICK k \in 1..(m + Len(z)) : r = rows[k]
      BY <1>11 DEF Range
    <3>2. k \in 1..m \/ k \in (m + 1)..(m + Len(z))
      BY <1>2, <1>9
    <3> QED
      BY <1>2, <1>11, <3>1, <3>2
  <2>2. ASSUME NEW d \in D PROVE \E r \in Range(rows) : r.name = d
    <3>1. PICK k \in 1..m : names[k] = d
      BY <1>2
    <3>2. k \in DOMAIN rows
      BY <1>2, <1>9, <1>11
    <3> QED
      BY <1>11, <3>1, <3>2 DEF Range
  <2>3. \E r \in Range(rows) : r.name = "slug"
    <3>1. m + 1 \in DOMAIN rows /\ m + 1 \in (m + 1)..(m + Len(z))
      BY <1>2, <1>9, <1>11
    <3> QED
      BY <1>11, <3>1 DEF Range
  <2> QED
    BY <2>1, <2>2, <2>3
<1>13. DOMAIN req = D \cup {"slug"}
  <2>1. (D \cup {"slug"}) \ {"", "id"} = D \cup {"slug"}
    BY <1>1
  <2> QED
    BY <1>12, <2>1 DEF Requests
<1>14. ASSUME NEW n \in D PROVE req[n] = attrs[n]
  <2> DEFINE K == {k \in DOMAIN rows : rows[k].name = n}
  <2>1. K \in SUBSET (Nat \ {0}) /\ K # {}
    <3>1. PICK k \in 1..m : names[k] = n
      BY <1>2
    <3>2. k \in K
      BY <1>2, <1>9, <1>11, <3>1
    <3>3. m + Len(z) \in Nat /\ DOMAIN rows = 1..(m + Len(z))
      BY <1>2, <1>9, <1>11
    <3>4. DOMAIN rows \in SUBSET (Nat \ {0})
      BY <3>3
    <3> QED
      BY <3>2, <3>4
  <2>2. req[n] = rows[FirstOf(K)].value
    <3>1. n \in {r.name : r \in Range(rows)} \ {"", "id"}
      BY <1>1, <1>12
    <3> QED
      BY <3>1 DEF Requests
  <2>3. \A k \in K : rows[k].name = n /\ k \in 1..(m + Len(z))
    BY <1>11
  <2> HIDE DEF K
  <2>4. FirstOf(K) \in K
    BY <2>1, FirstOfFacts
  <2> DEFINE k == FirstOf(K)
  <2> HIDE DEF k
  <2>5. k \in 1..(m + Len(z)) /\ rows[k].name = n
    BY <2>3, <2>4 DEF k
  <2>6. k \in 1..m
    <3>1. k \notin (m + 1)..(m + Len(z))
      BY <1>1, <1>11, <2>5
    <3> QED
      BY <1>2, <1>9, <2>5, <3>1
  <2> QED
    BY <1>11, <2>2, <2>5, <2>6 DEF k
<1>15. Attributes(req)
  <2>1. req = [n \in DOMAIN req |-> req[n]]
    BY DEF Requests
  <2>2. IsFiniteSet({"slug"})
    BY FS_Singleton
  <2>3. IsFiniteSet(D \cup {"slug"})
    BY <1>1, <2>2, FS_Union
  <2> HIDE DEF req
  <2> QED
    BY <1>1, <1>13, <2>1, <2>3 DEF Attributes
<1> HIDE DEF req
<1>16. DOMAIN req \ {"id", "slug", "digest"} = DOMAIN attrs \ {"id", "slug", "digest"}
  BY <1>13 DEF D
<1>17. \A n \in DOMAIN attrs \ {"id", "slug", "digest"} : req[n] = attrs[n]
  BY <1>14 DEF D
<1> QED
  BY <1>15, <1>16, <1>17 DEF req

----------------------------------------
(* The invariant of the two views *)

Working(j) ==
    /\ j.step \in {"ask", "write", "draw"}
    /\ j = [step |-> j.step, request |-> j.request, old |-> j.old, new |-> j.new]
    /\ IsSeq(j.old) /\ IsSeq(j.new) /\ Made(j.request, j.old, j.new) /\ j.new # j.old

\* The lines of all the texts there are.
Holds(S) ==
    /\ Consistent(S) /\ Range(buffer) \subseteq S
    /\ \A v \in Views : /\ Range(drawn[v]) \subseteq S
                        /\ job[v] # Idle => /\ Range(job[v].old) \subseteq S
                                            /\ Range(job[v].new) \subseteq S

ViewInv ==
    /\ IsSeq(buffer)
    /\ drawn = [v \in Views |-> drawn[v]] /\ job = [v \in Views |-> job[v]]
    /\ \A v \in Views : IsSeq(drawn[v]) /\ (job[v] = Idle \/ Working(job[v]))
    /\ \E S : Holds(S)

\* A pending edit is no idle one.
LEMMA WorkingIsBusy == \A j : Working(j) => j # Idle
<1>1. Idle.step = "idle"
  BY DEF Idle
<1> QED
  BY <1>1 DEF Working

\* The pages are consistent when the views are opened.
LEMMA InitInv == ViewInit => ViewInv
<1> SUFFICES ASSUME ViewInit PROVE ViewInv
  OBVIOUS
<1>1. buffer \in Texts /\ drawn = [v \in Views |-> buffer] /\ job = [v \in Views |-> Idle]
  BY DEF ViewInit
<1>2. IsSeq(buffer) /\ Consistent(Range(buffer))
  BY <1>1, TextsAssumption
<1>3. \A v \in Views : drawn[v] = buffer /\ job[v] = Idle
  BY <1>1
<1>4. drawn = [v \in Views |-> drawn[v]] /\ job = [v \in Views |-> job[v]]
  BY <1>1
<1>5. Holds(Range(buffer))
  BY <1>2, <1>3 DEF Holds
<1> QED
  BY <1>2, <1>3, <1>4, <1>5 DEF ViewInv

Answers(a) == a = Refused \/ a = Rewritten(a.text)

\* Every rewrite either refuses or gives a text.
LEMMA AnswerForms ==
    ASSUME NEW lines, NEW p, NEW q, NEW r
    PROVE  /\ Answers(ReorderUnit(lines, p, q, r))
           /\ Answers(InsertGroupMarkers(lines, p, q, r))
           /\ Answers(RemoveGroupMarkers(lines, p))
           /\ Answers(SetAtomSlug(lines, p, q)) /\ Answers(SetGroupSlug(lines, p, q))
           /\ Answers(SaveAttrs(lines, p, q)) /\ Answers(SetAtomAttrs(lines, p, q))
           /\ Answers(ReplaceAtomBlock(lines, p, q))
           /\ Answers(SetAtomDigests(lines, p))
<1>1. Answers(Refused) /\ \A x : Answers(Rewritten(x))
  <2>1. \A x : Rewritten(x).text = x
    BY DEF Rewritten
  <2> QED
    BY <2>1 DEF Answers
<1>2. Answers(ReorderUnit(lines, p, q, r))
  BY <1>1 DEF ReorderUnit, MoveUnit, Reordered
<1>3. Answers(InsertGroupMarkers(lines, p, q, r))
  BY <1>1 DEF InsertGroupMarkers, MarkUnits
<1>4. Answers(RemoveGroupMarkers(lines, p))
  BY <1>1 DEF RemoveGroupMarkers, UngroupIn, UnmarkUnit
<1>5. Answers(SetAtomSlug(lines, p, q)) /\ Answers(SetGroupSlug(lines, p, q))
  BY <1>1 DEF SetAtomSlug, SetGroupSlug
<1>6. \A x : Answers(SaveAttrs(lines, p, x))
  BY <1>1 DEF SaveAttrs
<1>7. Answers(SetAtomAttrs(lines, p, q))
  BY <1>1, <1>6 DEF SetAtomAttrs
<1>8. Answers(ReplaceAtomBlock(lines, p, q))
  BY <1>1 DEF ReplaceAtomBlock
<1>9. Answers(SetAtomDigests(lines, p))
  BY <1>1 DEF SetAtomDigests
<1> QED
  BY <1>2, <1>3, <1>4, <1>5, <1>6, <1>7, <1>8, <1>9

\* A worker that begins an edit keeps the invariant.
LEMMA BeginKeeps ==
    ASSUME ViewInv, NEW v \in Views, NEW step \in {"ask", "write"}, NEW request, NEW answer,
           BeginEdit(v, step, request, answer), Answers(answer),
           \A new : answer = Rewritten(new) => Made(request, buffer, new)
    PROVE  ViewInv'
<1> DEFINE j == [step |-> step, request |-> request, old |-> buffer, new |-> answer.text]
<1>1. /\ answer.ok /\ job' = [job EXCEPT ![v] = j] /\ answer.text # buffer
      /\ buffer' = buffer /\ drawn' = drawn
  BY DEF BeginEdit
<1>2. answer = Rewritten(answer.text)
  BY <1>1 DEF Answers, Refused
<1> DEFINE new == answer.text
<1>3. Made(request, buffer, new)
  BY <1>2
<1>4. IsSeq(buffer)
  BY DEF ViewInv
<1>5. PICK S : Holds(S)
  BY DEF ViewInv
<1>6. Extends(S, new)
  <2>1. Consistent(S) /\ Range(buffer) \subseteq S
    BY <1>5 DEF Holds
  <2> HIDE DEF new
  <2> QED
    BY <1>3, <1>4, <2>1, ExtendMade
<1>7. PICK T : S \subseteq T /\ Consistent(T) /\ Over(new, T)
  BY <1>6 DEF Extends
<1>8. IsSeq(new) /\ Range(new) \subseteq T
  <2> HIDE DEF new
  <2> QED
    BY <1>7, OverIs
<1>9. j.step = step /\ j.request = request /\ j.old = buffer /\ j.new = new
  OBVIOUS
<1>10. Working(j)
  <2> HIDE DEF new
  <2> QED
    BY <1>1, <1>3, <1>4, <1>8 DEF Working, new
<1>11. job = [w \in Views |-> job[w]]
  BY DEF ViewInv
<1>12. job'[v] = j /\ \A w \in Views : w # v => job'[w] = job[w]
  BY <1>1, <1>11
<1>13. job' = [w \in Views |-> job'[w]]
  BY <1>1, <1>11
<1> HIDE DEF j, new
<1>14. Holds(T)'
  <2>1. /\ Consistent(S) /\ Range(buffer) \subseteq S
        /\ \A w \in Views : Range(drawn[w]) \subseteq S
        /\ \A w \in Views : job[w] # Idle => Range(job[w].old) \subseteq S /\ Range(job[w].new) \subseteq S
    BY <1>5 DEF Holds
  <2>2. Range(buffer') \subseteq T /\ \A w \in Views : Range(drawn'[w]) \subseteq T
    BY <1>1, <1>7, <2>1
  <2>3. ASSUME NEW w \in Views, job'[w] # Idle
        PROVE  Range(job'[w].old) \subseteq T /\ Range(job'[w].new) \subseteq T
    <3>1. CASE w = v
      BY <1>7, <1>8, <1>9, <1>12, <2>1, <3>1
    <3>2. CASE w # v
      BY <1>7, <1>12, <2>1, <2>3, <3>2
    <3> QED
      BY <3>1, <3>2
  <2> QED
    BY <1>7, <2>2, <2>3 DEF Holds
<1>15. \A w \in Views : IsSeq(drawn'[w]) /\ (job'[w] = Idle \/ Working(job'[w]))
  BY <1>1, <1>10, <1>12 DEF ViewInv
<1> QED
  BY <1>1, <1>13, <1>14, <1>15 DEF ViewInv

\* A move begun by either view keeps the texts consistent.
LEMMA MoveKeeps ==
    ASSUME ViewInv, NEW v \in Views, NEW moved, NEW target, NEW place,
           target = None \/ place \in {"before", "after"}, place # "start",
           BeginEdit(v, "write", [op |-> "reorder", moved |-> moved, target |-> target, place |-> place],
                     ReorderUnit(buffer, moved, target, place))
    PROVE  ViewInv'
<1> DEFINE r == [op |-> "reorder", moved |-> moved, target |-> target, place |-> place]
           answer == ReorderUnit(buffer, moved, target, place)
<1>1. r.op = "reorder" /\ r.moved = moved /\ r.target = target /\ r.place = place
  OBVIOUS
<1>2. Answers(answer) /\ BeginEdit(v, "write", r, answer)
  BY AnswerForms
<1> HIDE DEF r
<1>3. \A new : answer = Rewritten(new) => Made(r, buffer, new)
  BY <1>1 DEF Made, Makes
<1> HIDE DEF answer
<1> QED
  BY <1>2, <1>3, BeginKeeps

\* So does a drag on the board.
LEMMA ReorderKeeps == ViewInv /\ ReorderAtom => ViewInv'
<1> SUFFICES ASSUME ViewInv, ReorderAtom PROVE ViewInv'
  OBVIOUS
<1> DEFINE keys == CardKeys
<1>1. PICK moved \in Range(keys), drop \in PickDropTarget(keys) :
        BeginEdit("board", "write",
               [op |-> "reorder", moved |-> moved, target |-> drop[1], place |-> drop[2]],
               ReorderUnit(buffer, moved, drop[1], drop[2]))
  BY DEF ReorderAtom
<1>2. (drop[2] \in {"before", "after"}) \/ (drop[1] = None /\ drop[2] = "end")
  BY DEF PickDropTarget
<1>3. drop[2] # "start"
  BY <1>2
<1> QED
  BY <1>1, <1>2, <1>3, MoveKeeps DEF Views

\* So does a drag in the page.
LEMMA DragKeeps == ViewInv /\ OnDecorationDrag => ViewInv'
<1> SUFFICES ASSUME ViewInv, OnDecorationDrag PROVE ViewInv'
  OBVIOUS
<1>1. PICK moved \in Range(InlineOrder), hit \in Range(InlineOrder) \cup {None},
           line \in 1..(Len(buffer) + 1) :
        \E drop \in DropTarget(hit, line) :
           BeginEdit("inline", "write",
                    [op |-> "reorder", moved |-> moved, target |-> drop[1], place |-> drop[2]],
                    ReorderUnit(buffer, moved, drop[1], drop[2]))
  BY DEF OnDecorationDrag
<1>2. PICK drop \in DropTarget(hit, line) :
           BeginEdit("inline", "write",
                    [op |-> "reorder", moved |-> moved, target |-> drop[1], place |-> drop[2]],
                    ReorderUnit(buffer, moved, drop[1], drop[2]))
  BY <1>1
<1>3. (drop[2] \in {"before", "after"}) \/ (drop[1] = None /\ drop[2] = "end")
  BY DEF DropTarget
<1>4. drop[2] # "start"
  BY <1>3
<1> QED
  BY <1>2, <1>3, <1>4, MoveKeeps DEF Views

\* A grouping begun by either view keeps the texts consistent.
LEMMA GroupKeeps ==
    ASSUME ViewInv, NEW v \in Views, NEW step \in {"ask", "write"}, NEW keys, NEW id, NEW given,
           IsFiniteSet(keys), \A k \in keys : ~IsGroupKey(k),
           BeginEdit(v, step, [op |-> "group", keys |-> keys, id |-> id],
                     InsertGroupMarkers(buffer, keys, id, given))
    PROVE  ViewInv'
<1> DEFINE r == [op |-> "group", keys |-> keys, id |-> id]
           answer == InsertGroupMarkers(buffer, keys, id, given)
<1>1. r.op = "group" /\ r.keys = keys /\ r.id = id
  OBVIOUS
<1>2. Answers(answer) /\ BeginEdit(v, step, r, answer)
  BY AnswerForms
<1> HIDE DEF r
<1>3. \A new : answer = Rewritten(new) => Made(r, buffer, new)
  BY <1>1 DEF Made, Makes
<1> HIDE DEF answer
<1> QED
  BY <1>2, <1>3, BeginKeeps

\* So does an ungrouping.
LEMMA UngroupKeeps ==
    ASSUME ViewInv, NEW v \in Views, NEW key \in DrawnGroups(v), UngroupAtoms(v, key)
    PROVE  ViewInv'
<1> DEFINE r == [op |-> "ungroup", key |-> key]
           answer == RemoveGroupMarkers(buffer, key)
<1>1. r.op = "ungroup" /\ r.key = key
  OBVIOUS
<1>2. Answers(answer) /\ BeginEdit(v, "write", r, answer) /\ ~GroupFault(buffer, key)
  BY AnswerForms DEF UngroupAtoms
<1> HIDE DEF r
<1>3. IsGroupKey(key)
  <2> DEFINE U == ComputeUnits(drawn[v])
  <2>1. PICK u \in Range(U) : u.kind = "group" /\ u.key = key
    BY DEF DrawnGroups
  <2>2. IsSeq(drawn[v])
    BY DEF ViewInv
  <2>3. PICK n \in 1..Len(U) : u = U[n]
    BY <2>1, <2>2, ComputeFacts DEF Range
  <2>4. u = UnitAt(drawn[v], UnitStarts(drawn[v]), Ascending(UnitStarts(drawn[v]))[n])
    BY <2>2, <2>3, ComputeFacts
  <2> HIDE DEF U
  <2>5. u.key[1] = "line" \/ u.key[1] = "group"
    BY <2>1, <2>4, KeyFacts
  <2> QED
    BY <2>1, <2>5 DEF IsGroupKey
<1>4. \A new : answer = Rewritten(new) => Made(r, buffer, new)
  BY <1>1, <1>2, <1>3 DEF Made, Makes
<1> HIDE DEF answer
<1> QED
  BY <1>2, <1>4, BeginKeeps

\* So does a rename of an atom or a group.
LEMMA NameKeeps ==
    ASSUME ViewInv, NEW v \in Views, NEW step \in {"ask", "write"}, NEW id, NEW given,
           \/ BeginEdit(v, step, [op |-> "name"], SetAtomSlug(buffer, id, given))
           \/ BeginEdit(v, step, [op |-> "name"], SetGroupSlug(buffer, id, given))
    PROVE  ViewInv'
<1> DEFINE r == [op |-> "name"]
           one == SetAtomSlug(buffer, id, given)
           two == SetGroupSlug(buffer, id, given)
<1>1. r.op = "name"
  OBVIOUS
<1>2. Answers(one) /\ Answers(two) /\ (BeginEdit(v, step, r, one) \/ BeginEdit(v, step, r, two))
  BY AnswerForms
<1> HIDE DEF r
<1>3. \A new : (one = Rewritten(new) \/ two = Rewritten(new)) => Made(r, buffer, new)
  BY <1>1 DEF Made, Makes
<1> HIDE DEF one, two
<1>4. CASE BeginEdit(v, step, r, one)
  BY <1>2, <1>3, <1>4, BeginKeeps
<1>5. CASE BeginEdit(v, step, r, two)
  BY <1>2, <1>3, <1>5, BeginKeeps
<1> QED
  BY <1>2, <1>4, <1>5

\* So does a rename by the key a group was drawn with.
LEMMA RenameKeeps ==
    ASSUME ViewInv, NEW v \in Views, NEW step \in {"ask", "write"}, NEW key, NEW given,
           RenameGroup(v, step, key, given)
    PROVE  ViewInv'
BY NameKeeps DEF RenameGroup

\* What a card's attributes say is what the directive in the buffer says.
LEMMA CardSays ==
    ASSUME ViewInv, NEW v \in Views, NEW c \in Explicit(v)
    PROVE  /\ Attributes(c.attrs) /\ "id" \in DOMAIN c.attrs /\ c.attrs["id"] = c.id[2]
           /\ \A i \in 1..Len(buffer) : IsAtom(buffer[i], c.id[2]) =>
                Kept(c.attrs) = Kept(buffer[i].attrs)
<1> DEFINE L == drawn[v]
<1>1. IsSeq(L) /\ IsSeq(buffer)
  BY DEF ViewInv
<1>2. c \in Range(ParseAtoms(L)) /\ ~IsImplicit(c)
  BY DEF Explicit, Cards
<1> HIDE DEF L
<1>3. PICK h \in 1..Len(L) : /\ L[h].kind = "atom" /\ HasAttr(L[h], "id")
                             /\ c.attrs = L[h].attrs /\ c.id[2] = L[h].attrs["id"]
  BY <1>1, <1>2, ExplicitCard
<1>4. PICK S : Holds(S)
  BY DEF ViewInv
<1>5. Consistent(S) /\ Range(buffer) \subseteq S /\ Range(L) \subseteq S
  BY <1>4 DEF Holds, L
<1>6. L[h] \in S
  BY <1>1, <1>3, <1>5, SeqDomain DEF Range
<1>7. ASSUME NEW i \in 1..Len(buffer), IsAtom(buffer[i], c.id[2])
      PROVE  Kept(c.attrs) = Kept(buffer[i].attrs)
  <2>1. buffer[i] \in S
    BY <1>1, <1>5, SeqDomain DEF Range
  <2> QED
    BY <1>3, <1>5, <1>6, <1>7, <2>1 DEF IsAtom, Consistent
<1>8. Attributes(c.attrs)
  BY <1>3, <1>5, <1>6 DEF Consistent
<1> QED
  BY <1>3, <1>7, <1>8 DEF HasAttr

\* So does a save of a card's attributes: what it sends it was drawn with.
LEMMA AttrsKeeps ==
    ASSUME ViewInv, NEW v \in Views, NEW c \in Explicit(v), NEW sent, NEW quiet,
           Attributes(sent),
           DOMAIN sent \ {"id", "slug", "digest"} = DOMAIN c.attrs \ {"id", "slug", "digest"},
           \A n \in DOMAIN c.attrs \ {"id", "slug", "digest"} : sent[n] = c.attrs[n],
           BeginEdit(v, "write", [op |-> "attrs", id |-> c.id[2], quiet |-> quiet],
                     SaveAttrs(buffer, c.id[2], sent))
    PROVE  ViewInv'
<1> DEFINE id == c.id[2]
           r == [op |-> "attrs", id |-> id, quiet |-> quiet]
           answer == SaveAttrs(buffer, id, sent)
           a == c.attrs
<1>1. r.op = "attrs" /\ r.id = id
  OBVIOUS
<1>2. Answers(answer) /\ BeginEdit(v, "write", r, answer)
  BY AnswerForms
<1>3. /\ "id" \in DOMAIN a /\ a["id"] = id
      /\ \A i \in 1..Len(buffer) : IsAtom(buffer[i], id) => Kept(a) = Kept(buffer[i].attrs)
  BY CardSays
<1>4. /\ DOMAIN sent \ {"id", "slug", "digest"} = DOMAIN a \ {"id", "slug", "digest"}
      /\ \A n \in DOMAIN a \ {"id", "slug", "digest"} : sent[n] = a[n]
  OBVIOUS
<1> HIDE DEF r, id, a
<1>5. Attributes(Saved(id, sent)) /\ Kept(Saved(id, sent)) = Kept(a)
  BY <1>3, <1>4, SavedFacts
<1>6. \A i \in 1..Len(buffer) : IsAtom(buffer[i], id) => Kept(Saved(id, sent)) = Kept(buffer[i].attrs)
  BY <1>3, <1>5
<1>7. \A new : answer = Rewritten(new) => Made(r, buffer, new)
  BY <1>1, <1>5, <1>6 DEF Made, Makes
<1> HIDE DEF answer
<1> QED
  BY <1>2, <1>7, BeginKeeps

\* The board's attribute editor.
LEMMA BoardSaveKeeps == ViewInv /\ BoardSaveAttrs => ViewInv'
<1> SUFFICES ASSUME ViewInv, BoardSaveAttrs PROVE ViewInv'
  OBVIOUS
<1>1. PICK c \in Explicit("board"), given \in Names : \E sent \in Requested(c.attrs, given) :
         BeginEdit("board", "write",
               [op |-> "attrs", id |-> c.id[2], quiet |-> SameSlug(c.id[2], sent)],
               SaveAttrs(buffer, c.id[2], sent))
  BY DEF BoardSaveAttrs
<1>2. PICK sent \in Requested(c.attrs, given) :
         BeginEdit("board", "write",
               [op |-> "attrs", id |-> c.id[2], quiet |-> SameSlug(c.id[2], sent)],
               SaveAttrs(buffer, c.id[2], sent))
  BY <1>1
<1> DEFINE a == c.attrs
           v == "board"
<1>3. Attributes(a) /\ v \in Views
  <2>1. v \in Views
    BY DEF Views
  <2> QED
    BY <2>1, CardSays
<1>4. sent = Without(a, {"digest"}) \/ sent = With(a, "slug", given)
  BY DEF Requested
<1> HIDE DEF a
<1>5. /\ Attributes(sent)
      /\ DOMAIN sent \ {"id", "slug", "digest"} = DOMAIN a \ {"id", "slug", "digest"}
      /\ \A n \in DOMAIN a \ {"id", "slug", "digest"} : sent[n] = a[n]
  <2>1. CASE sent = Without(a, {"digest"})
    <3>1. /\ Attributes(sent) /\ DOMAIN sent = DOMAIN a \ {"digest"}
          /\ \A n \in DOMAIN a \ {"digest"} : sent[n] = a[n]
      BY <1>3, <2>1, WithoutFacts
    <3> QED
      BY <3>1
  <2>2. CASE sent = With(a, "slug", given)
    <3>1. DOMAIN sent = DOMAIN a \cup {"slug"} /\ \A n \in DOMAIN a \ {"slug"} : sent[n] = a[n]
      BY <2>2 DEF With
    <3>2. Attributes(sent)
      <4>1. "slug" # ""
        OBVIOUS
      <4> QED
        BY <1>3, <2>2, <4>1, WithFacts
    <3> QED
      BY <3>1, <3>2
  <2> QED
    BY <1>4, <2>1, <2>2
<1> QED
  BY <1>2, <1>3, <1>5, AttrsKeeps DEF a

\* The inline view's attribute form.
LEMMA InlineSaveKeeps == ViewInv /\ InlineSaveAttrs => ViewInv'
<1> SUFFICES ASSUME ViewInv, InlineSaveAttrs PROVE ViewInv'
  OBVIOUS
<1>1. PICK c \in Explicit("inline"), given \in Names : \E rows \in Rows(c.attrs, given) :
         BeginEdit("inline", "write", [op |-> "attrs", id |-> c.id[2], quiet |-> TRUE],
               SetAtomAttrs(buffer, c.id[2], rows))
  BY DEF InlineSaveAttrs
<1>2. PICK rows \in Rows(c.attrs, given) :
         BeginEdit("inline", "write", [op |-> "attrs", id |-> c.id[2], quiet |-> TRUE],
               SetAtomAttrs(buffer, c.id[2], rows))
  BY <1>1
<1> DEFINE a == c.attrs
           v == "inline"
           sent == Requests(rows)
<1>3. Attributes(a) /\ v \in Views
  <2>1. v \in Views
    BY DEF Views
  <2> QED
    BY <2>1, CardSays
<1>4. ~RowsRefused(rows)
  <2>1. SetAtomAttrs(buffer, c.id[2], rows).ok
    BY <1>2 DEF BeginEdit
  <2> QED
    BY <2>1 DEF SetAtomAttrs, Refused
<1>5. SetAtomAttrs(buffer, c.id[2], rows) = SaveAttrs(buffer, c.id[2], sent)
  BY <1>4 DEF SetAtomAttrs, Requests
<1> HIDE DEF a, sent
<1>6. /\ Attributes(sent)
      /\ DOMAIN sent \ {"id", "slug", "digest"} = DOMAIN a \ {"id", "slug", "digest"}
      /\ \A n \in DOMAIN a \ {"id", "slug", "digest"} : sent[n] = a[n]
  BY <1>2, <1>3, <1>4, RowsKeep DEF sent, a
<1> QED
  BY <1>2, <1>3, <1>5, <1>6, AttrsKeeps DEF a

\* What can be grouped is a finite set of keys, and no group's among them.
LEMMA GroupableFacts ==
    ASSUME NEW order, NEW n \in Nat, DOMAIN order = 1..n, NEW keys \in Groupable(order)
    PROVE  IsFiniteSet(keys) /\ \A k \in keys : ~IsGroupKey(k)
<1>1. keys \subseteq Range(order) /\ \A k \in keys : ~IsGroupKey(k)
  BY DEF Groupable
<1> DEFINE f == [i \in 1..n |-> order[i]]
           R == Range(order)
<1>2. f \in Surjection(1..n, R)
  BY DEF Surjection, Range
<1>3. IsFiniteSet(1..n)
  BY FS_Interval
<1> HIDE DEF f, R
<1>4. IsFiniteSet(R)
  BY <1>2, <1>3, FS_Surjection
<1> QED
  BY <1>1, <1>4, FS_Subset DEF R

\* The board's Group.
LEMMA GroupAtomsKeeps == ViewInv /\ GroupAtoms => ViewInv'
<1> SUFFICES ASSUME ViewInv, GroupAtoms PROVE ViewInv'
  OBVIOUS
<1>1. PICK keys \in Groupable(Dedupe(CardKeys)), id \in FreshId, given \in Names :
        BeginEdit("board", "write", [op |-> "group", keys |-> keys, id |-> id],
                  InsertGroupMarkers(buffer, keys, id, given))
  BY DEF GroupAtoms
<1>2. IsFiniteSet(keys) /\ \A k \in keys : ~IsGroupKey(k)
  <2> DEFINE keysOf == CardKeys
             order == Dedupe(keysOf)
             new == {n \in DOMAIN keysOf : \A m \in 1..(n - 1) : keysOf[m] # keysOf[n]}
  <2>1. \E n \in Nat : DOMAIN keysOf = 1..n
    <3>1. IsSeq(drawn["board"])
      BY DEF ViewInv, Holds, Views
    <3>2. Len(Cards("board")) \in Nat /\ DOMAIN Cards("board") = 1..Len(Cards("board"))
      BY <3>1, ParseFacts DEF Cards
    <3> DEFINE g == [n \in DOMAIN Cards("board") |-> UnitKeyForCard(Cards("board")[n])]
    <3>3. DOMAIN Tuple(g) = 1..Len(Cards("board"))
      <4>1. g = [n \in 1..Len(Cards("board")) |-> g[n]]
        BY <3>2
      <4> HIDE DEF g
      <4> QED
        BY <3>2, <4>1, FunctionSeq
    <3> QED
      BY <3>2, <3>3 DEF CardKeys, KeysOf
  <2> HIDE DEF keysOf
  <2>2. PICK n \in Nat : DOMAIN keysOf = 1..n
    BY <2>1
  <2>3. new \in SUBSET (Nat \ {0}) /\ IsFiniteSet(new)
    <3>1. new \subseteq 1..n
      BY <2>2
    <3>2. IsFiniteSet(1..n)
      BY FS_Interval
    <3> HIDE DEF new
    <3>3. IsFiniteSet(new)
      BY <3>1, <3>2, FS_Subset
    <3> QED
      BY <3>1, <3>3
  <2>4. DOMAIN Ascending(new) = 1..Cardinality(new) /\ Cardinality(new) \in Nat
    <3> HIDE DEF new
    <3> QED
      BY <2>3, AscendingFacts
  <2>5. DOMAIN order = 1..Cardinality(new)
    BY <2>4 DEF Dedupe
  <2>6. keys \in Groupable(order)
    BY DEF keysOf
  <2> HIDE DEF new, order
  <2> QED
    BY <2>4, <2>5, <2>6, GroupableFacts
<1> QED
  BY <1>1, <1>2, GroupKeeps DEF Views

\* The inline view's Group.
LEMMA GroupSelectionKeeps == ViewInv /\ GroupSelection => ViewInv'
<1> SUFFICES ASSUME ViewInv, GroupSelection PROVE ViewInv'
  OBVIOUS
<1>1. PICK keys \in Groupable(UnitOrder(buffer)), id \in FreshId, given \in Names :
        BeginEdit("inline", "ask", [op |-> "group", keys |-> keys, id |-> id],
                  InsertGroupMarkers(buffer, keys, id, given))
  BY DEF GroupSelection
<1>2. IsFiniteSet(keys) /\ \A k \in keys : ~IsGroupKey(k)
  <2>1. IsSeq(buffer)
    BY DEF ViewInv, Holds
  <2>2. Len(ComputeUnits(buffer)) \in Nat /\ DOMAIN ComputeUnits(buffer) = 1..Len(ComputeUnits(buffer))
    BY <2>1, ComputeFacts
  <2>3. DOMAIN UnitOrder(buffer) = 1..Len(ComputeUnits(buffer))
    BY <2>2 DEF UnitOrder, Keys
  <2> QED
    BY <2>2, <2>3, GroupableFacts
<1> QED
  BY <1>1, <1>2, GroupKeeps DEF Views

\* The board's rename and Ungroup.
LEMMA ChangeGroupKeeps == ViewInv /\ ChangeGroupAtoms => ViewInv'
<1> SUFFICES ASSUME ViewInv, ChangeGroupAtoms PROVE ViewInv'
  OBVIOUS
<1>1. PICK key \in DrawnGroups("board") :
        \/ UngroupAtoms("board", key)
        \/ \E given \in Names : RenameGroup("board", "write", key, given)
  BY DEF ChangeGroupAtoms
<1> QED
  BY <1>1, UngroupKeeps, RenameKeeps DEF Views

\* The inline view's rename and Ungroup.
LEMMA InlineGroupKeeps == ViewInv /\ (UngroupHere \/ RenameHere) => ViewInv'
<1>1. ViewInv /\ UngroupHere => ViewInv'
  BY UngroupKeeps DEF UngroupHere, Views
<1>2. ViewInv /\ RenameHere => ViewInv'
  BY RenameKeeps, NameKeeps DEF RenameHere, Views
<1> QED
  BY <1>1, <1>2

\* The board's edit of a card's text.
LEMMA BlockKeeps == ViewInv /\ SaveAtomBlock => ViewInv'
<1> SUFFICES ASSUME ViewInv, SaveAtomBlock PROVE ViewInv'
  OBVIOUS
<1>1. PICK c \in Explicit("board"), new \in Blocks :
        BeginEdit("board", "write", [op |-> "block", id |-> c.id[2], text |-> new],
                  ReplaceAtomBlock(buffer, c.id[2], new))
  BY DEF SaveAtomBlock
<1> DEFINE id == c.id[2]
           r == [op |-> "block", id |-> id, text |-> new]
           answer == ReplaceAtomBlock(buffer, id, new)
<1>2. r.op = "block" /\ r.id = id /\ r.text = new
  OBVIOUS
<1>3. Answers(answer) /\ BeginEdit("board", "write", r, answer) /\ IsSeq(new)
  BY <1>1, AnswerForms, TextsAssumption
<1> HIDE DEF r, id
<1>4. \A t : answer = Rewritten(t) => Made(r, buffer, t)
  BY <1>2, <1>3 DEF Made, Makes
<1> HIDE DEF answer
<1> QED
  BY <1>3, <1>4, BeginKeeps DEF Views

\* The board's review.
LEMMA ReviewKeeps == ViewInv /\ RefreshDigests => ViewInv'
<1> SUFFICES ASSUME ViewInv, RefreshDigests PROVE ViewInv'
  OBVIOUS
<1>1. PICK ids \in SUBSET {c.id[2] : c \in {d \in Explicit("board") :
                                          DigestState(d) \in {"stale", "none"}}} :
        BeginEdit("board", "write", [op |-> "review", ids |-> ids],
                  SetAtomDigests(buffer, ReviewEntries(buffer, ids)))
  BY DEF RefreshDigests
<1> DEFINE r == [op |-> "review", ids |-> ids]
           answer == SetAtomDigests(buffer, ReviewEntries(buffer, ids))
<1>2. r.op = "review" /\ r.ids = ids
  OBVIOUS
<1>3. Answers(answer) /\ BeginEdit("board", "write", r, answer)
  BY <1>1, AnswerForms
<1> HIDE DEF r
<1>4. \A t : answer = Rewritten(t) => Made(r, buffer, t)
  BY <1>2 DEF Made, Makes
<1> HIDE DEF answer
<1> QED
  BY <1>3, <1>4, BeginKeeps DEF Views

\* What a worker goes on with, or the end of its edit, keeps what is said of it.
LEMMA JobKeeps ==
    ASSUME NEW j, Working(j), NEW k,
           k = Idle \/ (\E s \in {"ask", "write", "draw"} : k = [j EXCEPT !.step = s])
    PROVE  /\ k = Idle \/ Working(k)
           /\ k # Idle => (k.old = j.old /\ k.new = j.new /\ k.request = j.request)
<1> SUFFICES ASSUME k # Idle PROVE Working(k) /\ k.old = j.old /\ k.new = j.new /\ k.request = j.request
  OBVIOUS
<1>1. PICK s \in {"ask", "write", "draw"} : k = [j EXCEPT !.step = s]
  OBVIOUS
<1> DEFINE o == j.old
           n == j.new
           r == j.request
           t == j.step
<1>2. j = [step |-> t, request |-> r, old |-> o, new |-> n]
  BY DEF Working
<1>3. IsSeq(o) /\ IsSeq(n) /\ Made(r, o, n) /\ n # o
  BY DEF Working
<1> HIDE DEF o, n, r, t
<1>4. k = [step |-> s, request |-> r, old |-> o, new |-> n]
  BY <1>1, <1>2
<1>5. k.step = s /\ k.request = r /\ k.old = o /\ k.new = n
  BY <1>4
<1>6. Working(k)
  BY <1>3, <1>4, <1>5 DEF Working
<1> QED
  BY <1>5, <1>6 DEF o, n, r

\* A step that does not begin an edit: the lines it leaves are lines there were, and
\* those that are typed.
LEMMA GoesOn ==
    ASSUME ViewInv, NEW S, Holds(S), NEW T, S \subseteq T, Consistent(T),
           IsSeq(buffer'), Range(buffer') \subseteq T,
           drawn' = [v \in Views |-> drawn'[v]], job' = [v \in Views |-> job'[v]],
           \A v \in Views : /\ IsSeq(drawn'[v]) /\ Range(drawn'[v]) \subseteq T
                            /\ \/ job'[v] = job[v]
                               \/ job'[v] = Idle
                               \/ job[v] # Idle /\ \E s \in {"ask", "write", "draw"} :
                                    job'[v] = [job[v] EXCEPT !.step = s]
    PROVE  ViewInv'
<1>1. \A v \in Views : job[v] = Idle \/ Working(job[v])
  BY DEF ViewInv
<1>2. ASSUME NEW v \in Views
      PROVE  /\ job'[v] = Idle \/ Working(job'[v])
             /\ job'[v] # Idle => (Range(job'[v].old) \subseteq T /\ Range(job'[v].new) \subseteq T)
  <2> DEFINE j == job[v]
             k == job'[v]
  <2>1. j # Idle => Working(j)
    BY <1>1
  <2>2. j # Idle => (Range(j.old) \subseteq T /\ Range(j.new) \subseteq T)
    BY DEF Holds
  <2>3. \/ k = j
        \/ k = Idle
        \/ j # Idle /\ \E s \in {"ask", "write", "draw"} : k = [j EXCEPT !.step = s]
    OBVIOUS
  <2> SUFFICES /\ k = Idle \/ Working(k)
               /\ k # Idle => (Range(k.old) \subseteq T /\ Range(k.new) \subseteq T)
    OBVIOUS
  <2> HIDE DEF j, k
  <2>4. CASE k = j \/ k = Idle
    BY <2>1, <2>2, <2>4
  <2>5. CASE j # Idle /\ \E s \in {"ask", "write", "draw"} : k = [j EXCEPT !.step = s]
    BY <2>1, <2>2, <2>5, JobKeeps
  <2> QED
    BY <2>3, <2>4, <2>5
<1>3. Holds(T)'
  BY <1>2 DEF Holds
<1> QED
  BY <1>2, <1>3 DEF ViewInv

\* A prompt answered or dismissed.
LEMMA AnswerKeeps == ViewInv /\ (Answer \/ Cancel) => ViewInv'
<1> SUFFICES ASSUME ViewInv, Answer \/ Cancel PROVE ViewInv'
  OBVIOUS
<1>1. PICK S : Holds(S)
  BY DEF ViewInv
<1>2. /\ drawn = [v \in Views |-> drawn[v]] /\ job = [v \in Views |-> job[v]]
      /\ IsSeq(buffer) /\ \A v \in Views : IsSeq(drawn[v])
  BY DEF ViewInv
<1>3. buffer' = buffer /\ drawn' = drawn /\ job["inline"].step = "ask"
  BY DEF Answer, Cancel
<1>4. job["inline"] # Idle
  BY <1>3 DEF Idle
<1> DEFINE k == IF Answer THEN [job["inline"] EXCEPT !.step = "write"] ELSE Idle
<1>5. job' = [job EXCEPT !["inline"] = k]
  BY DEF Answer, Cancel
<1>6. k = Idle \/ k = [job["inline"] EXCEPT !.step = "write"]
  OBVIOUS
<1> HIDE DEF k
<1>7. /\ job' = [v \in Views |-> job'[v]] /\ job'["inline"] = k
      /\ \A v \in Views : v # "inline" => job'[v] = job[v]
  BY <1>2, <1>5 DEF Views
<1>8. ASSUME NEW v \in Views
      PROVE  /\ IsSeq(drawn'[v]) /\ Range(drawn'[v]) \subseteq S
             /\ \/ job'[v] = job[v]
                \/ job'[v] = Idle
                \/ job[v] # Idle /\ \E s \in {"ask", "write", "draw"} :
                                    job'[v] = [job[v] EXCEPT !.step = s]
  <2>1. IsSeq(drawn'[v]) /\ Range(drawn'[v]) \subseteq S
    BY <1>1, <1>2, <1>3 DEF Holds
  <2>2. CASE v = "inline"
    BY <1>4, <1>6, <1>7, <2>1, <2>2
  <2>3. CASE v # "inline"
    BY <1>7, <2>1, <2>3
  <2> QED
    BY <2>2, <2>3
<1>9. IsSeq(buffer') /\ Range(buffer') \subseteq S /\ Consistent(S)
  BY <1>1, <1>2, <1>3 DEF Holds
<1>10. drawn' = [v \in Views |-> drawn'[v]]
  BY <1>2, <1>3
<1> QED
  BY <1>1, <1>7, <1>8, <1>9, <1>10, GoesOn

\* The write, also when the buffer is no longer the text the edit was made
\* for.
LEMMA ReplaceKeeps ==
    ASSUME ViewInv, NEW v \in Views, ReplaceInEditor(v)
    PROVE  ViewInv'
<1> DEFINE old == job[v].old
           new == job[v].new
           edit == MinimalEdit(old, new)
           fits == InRange(buffer, edit)
           k == IF fits /\ v = "board" /\ Redraws(job[v]) THEN [job[v] EXCEPT !.step = "draw"] ELSE Idle
           d == IF v = "inline" THEN new ELSE drawn[v]
<1>1. PICK S : Holds(S)
  BY DEF ViewInv
<1>2. /\ drawn = [w \in Views |-> drawn[w]] /\ job = [w \in Views |-> job[w]]
      /\ IsSeq(buffer) /\ \A w \in Views : IsSeq(drawn[w])
  BY DEF ViewInv
<1>3. job[v].step = "write" /\ buffer' = (IF fits THEN ReplaceRange(buffer, edit) ELSE buffer)
  BY DEF ReplaceInEditor
<1>4. job[v] # Idle /\ Working(job[v])
  BY <1>3 DEF Idle, ViewInv
<1>5. IsSeq(old) /\ IsSeq(new) /\ Range(new) \subseteq S /\ Range(buffer) \subseteq S /\ Consistent(S)
  BY <1>1, <1>4 DEF Working, Holds
<1>6. IsSeq(buffer') /\ Range(buffer') \subseteq S
  <2> HIDE DEF old, new
  <2>1. CASE fits
    <3>1. /\ IsSeq(ReplaceRange(buffer, edit))
          /\ Range(ReplaceRange(buffer, edit)) \subseteq Range(buffer) \cup Range(new)
      BY <1>2, <1>5, <2>1, Replacing
    <3> QED
      BY <1>3, <1>5, <2>1, <3>1
  <2>2. CASE ~fits
    BY <1>2, <1>3, <1>5, <2>2
  <2> QED
    BY <2>1, <2>2
<1>7. job' = [job EXCEPT ![v] = k]
  BY <1>2 DEF ReplaceInEditor
<1>8. drawn' = [w \in Views |-> IF w = v THEN d ELSE drawn[w]]
  BY <1>2 DEF ReplaceInEditor, Views
<1>9. k = Idle \/ k = [job[v] EXCEPT !.step = "draw"]
  OBVIOUS
<1>10. IsSeq(d) /\ Range(d) \subseteq S
  BY <1>1, <1>2, <1>5 DEF Holds
<1> HIDE DEF k, d
<1>11. /\ job' = [w \in Views |-> job'[w]] /\ job'[v] = k
       /\ \A w \in Views : w # v => job'[w] = job[w]
  BY <1>2, <1>7
<1>12. drawn' = [w \in Views |-> drawn'[w]]
  BY <1>8
<1>13. ASSUME NEW w \in Views
       PROVE  /\ IsSeq(drawn'[w]) /\ Range(drawn'[w]) \subseteq S
              /\ \/ job'[w] = job[w]
                 \/ job'[w] = Idle
                 \/ job[w] # Idle /\ \E s \in {"ask", "write", "draw"} :
                                    job'[w] = [job[w] EXCEPT !.step = s]
  <2>1. IsSeq(drawn'[w]) /\ Range(drawn'[w]) \subseteq S
    BY <1>1, <1>2, <1>8, <1>10 DEF Holds
  <2>2. CASE w = v
    BY <1>4, <1>9, <1>11, <2>1, <2>2
  <2>3. CASE w # v
    BY <1>11, <2>1, <2>3
  <2> QED
    BY <2>2, <2>3
<1> HIDE DEF old, new, edit, fits
<1> QED
  BY <1>1, <1>5, <1>6, <1>11, <1>12, <1>13, GoesOn

\* The board drawn again.
LEMMA RerenderKeeps == ViewInv /\ RerenderBoard => ViewInv'
<1> SUFFICES ASSUME ViewInv, RerenderBoard PROVE ViewInv'
  OBVIOUS
<1> DEFINE new == job["board"].new
<1>1. PICK S : Holds(S)
  BY DEF ViewInv
<1>2. /\ drawn = [w \in Views |-> drawn[w]] /\ job = [w \in Views |-> job[w]]
      /\ IsSeq(buffer) /\ \A w \in Views : IsSeq(drawn[w])
  BY DEF ViewInv
<1>3. /\ job["board"].step = "draw" /\ buffer' = buffer
      /\ drawn' = [drawn EXCEPT !["board"] = new] /\ job' = [job EXCEPT !["board"] = Idle]
  BY DEF RerenderBoard
<1>4. job["board"] # Idle /\ Working(job["board"])
  BY <1>3 DEF Idle, ViewInv, Views
<1>5. IsSeq(new) /\ Range(new) \subseteq S /\ Consistent(S)
  BY <1>1, <1>4 DEF Working, Holds, Views
<1> HIDE DEF new
<1>6. /\ job' = [w \in Views |-> job'[w]] /\ drawn' = [w \in Views |-> drawn'[w]]
      /\ job'["board"] = Idle /\ drawn'["board"] = new
      /\ \A w \in Views : w # "board" => job'[w] = job[w] /\ drawn'[w] = drawn[w]
  BY <1>2, <1>3 DEF Views
<1>7. ASSUME NEW w \in Views
      PROVE  /\ IsSeq(drawn'[w]) /\ Range(drawn'[w]) \subseteq S
             /\ job'[w] = job[w] \/ job'[w] = Idle
  <2>1. CASE w = "board"
    BY <1>5, <1>6, <2>1
  <2>2. CASE w # "board"
    BY <1>1, <1>2, <1>6, <2>2 DEF Holds
  <2> QED
    BY <2>1, <2>2
<1>8. IsSeq(buffer') /\ Range(buffer') \subseteq S
  BY <1>1, <1>2, <1>3 DEF Holds
<1> QED
  BY <1>1, <1>5, <1>6, <1>7, <1>8, GoesOn

\* The inline view drawn again.
LEMMA RefreshKeeps == ViewInv /\ RefreshInline => ViewInv'
<1> SUFFICES ASSUME ViewInv, RefreshInline PROVE ViewInv'
  OBVIOUS
<1>1. PICK S : Holds(S)
  BY DEF ViewInv
<1>2. /\ drawn = [w \in Views |-> drawn[w]] /\ job = [w \in Views |-> job[w]]
      /\ IsSeq(buffer) /\ \A w \in Views : IsSeq(drawn[w])
  BY DEF ViewInv
<1>3. buffer' = buffer /\ job' = job /\ drawn' = [drawn EXCEPT !["inline"] = buffer]
  BY DEF RefreshInline
<1>4. /\ drawn' = [w \in Views |-> drawn'[w]] /\ job' = [w \in Views |-> job'[w]]
      /\ \A w \in Views : drawn'[w] = buffer \/ drawn'[w] = drawn[w]
  BY <1>2, <1>3 DEF Views
<1>5. Consistent(S) /\ Range(buffer) \subseteq S /\ \A w \in Views : Range(drawn[w]) \subseteq S
  BY <1>1 DEF Holds
<1>6. ASSUME NEW w \in Views
      PROVE  IsSeq(drawn'[w]) /\ Range(drawn'[w]) \subseteq S /\ job'[w] = job[w]
  BY <1>2, <1>3, <1>4, <1>5
<1>7. IsSeq(buffer') /\ Range(buffer') \subseteq S
  BY <1>2, <1>3, <1>5
<1> QED
  BY <1>1, <1>4, <1>5, <1>6, <1>7, GoesOn

\* Typing adds a line of content or takes one away.
LEMMA TypedLinesAre ==
    ASSUME NEW page, IsSeq(page), NEW new \in Typed(page)
    PROVE  Over(new, Range(page) \cup TypedLines)
<1> DEFINE T == Range(page) \cup TypedLines
<1>1. Over(page, T) /\ Len(page) \in Nat
  <2>1. Over(page, T)
    BY OverIs
  <2> QED
    BY <2>1, LenProperties DEF Over
<1>2. CASE \E p \in 1..(Len(page) + 1), l \in TypedLines : new = InsertAt(page, p, l)
  <2>1. PICK p \in 1..(Len(page) + 1), l \in TypedLines : new = InsertAt(page, p, l)
    BY <1>2
  <2> DEFINE a == SubSeq(page, 1, p - 1)
             b == SubSeq(page, p, Len(page))
  <2>2. new = a \o <<l>> \o b
    BY <2>1 DEF InsertAt
  <2>3. l \in T
    BY <2>1
  <2>4. Over(a, T) /\ Over(b, T) /\ Over(<<l>>, T)
    <3> HIDE DEF T
    <3>1. Over(<<l>>, T)
      BY <2>3, OverSingle
    <3>2. p - 1 \in Int /\ p - 1 <= Len(page) /\ p \in Int /\ 1 <= p /\ Len(page) \in Int
      BY <1>1
    <3>3. Over(a, T)
      BY <1>1, <3>2, OverCut
    <3>4. Over(b, T)
      BY <1>1, <3>2, OverCut
    <3> QED
      BY <3>1, <3>3, <3>4
  <2> HIDE DEF a, b, T
  <2>5. Over(a \o <<l>>, T)
    BY <2>4, OverJoin
  <2>6. Over((a \o <<l>>) \o b, T)
    BY <2>4, <2>5, OverJoin
  <2> QED
    BY <2>2, <2>6 DEF T
<1>3. CASE \E p \in DOMAIN page : new = RemoveAt(page, p)
  <2>1. PICK p \in DOMAIN page : new = RemoveAt(page, p)
    BY <1>3
  <2>2. p \in 1..Len(page)
    BY SeqDomain
  <2> HIDE DEF T
  <2> QED
    BY <1>1, <2>1, <2>2, OverRemove DEF T
<1> QED
  BY <1>2, <1>3 DEF Typed

\* Typing.
LEMMA TypeKeeps == ViewInv /\ TypeLine => ViewInv'
<1> SUFFICES ASSUME ViewInv, TypeLine PROVE ViewInv'
  OBVIOUS
<1>1. PICK S : Holds(S)
  BY DEF ViewInv
<1>2. /\ drawn = [w \in Views |-> drawn[w]] /\ job = [w \in Views |-> job[w]]
      /\ IsSeq(buffer) /\ \A w \in Views : IsSeq(drawn[w])
  BY DEF ViewInv
<1>3. buffer' \in Typed(buffer) /\ job' = job /\ drawn' = drawn
  BY DEF TypeLine
<1>4. Over(buffer', Range(buffer) \cup TypedLines)
  BY <1>2, <1>3, TypedLinesAre
<1>5. Consistent(S \cup TypedLines)
  <2>1. \A l \in TypedLines : Adds(S, l)
    BY TypedAssumption DEF Adds
  <2> QED
    BY <1>1, <2>1, StaysConsistent DEF Holds
<1> DEFINE T == S \cup TypedLines
<1>6. IsSeq(buffer') /\ Range(buffer') \subseteq T
  <2>1. Range(buffer) \subseteq S
    BY <1>1 DEF Holds
  <2>2. IsSeq(buffer') /\ Range(buffer') \subseteq Range(buffer) \cup TypedLines
    BY <1>4, OverIs
  <2> QED
    BY <2>1, <2>2
<1>7. ASSUME NEW w \in Views
      PROVE  IsSeq(drawn'[w]) /\ Range(drawn'[w]) \subseteq T /\ job'[w] = job[w]
  BY <1>1, <1>2, <1>3 DEF Holds
<1>8. S \subseteq T /\ Consistent(T)
  BY <1>5
<1>9. drawn' = [w \in Views |-> drawn'[w]] /\ job' = [w \in Views |-> job'[w]]
  BY <1>2, <1>3
<1> HIDE DEF T
<1> QED
  BY <1>1, <1>6, <1>7, <1>8, <1>9, GoesOn

\* No step of either view or of the user makes the texts inconsistent.
LEMMA StepInv == ViewInv /\ [ViewNext]_viewVars => ViewInv'
<1> SUFFICES ASSUME ViewInv, [ViewNext]_viewVars PROVE ViewInv'
  OBVIOUS
<1>1. CASE BoardEdit
  BY <1>1, ReorderKeeps, GroupAtomsKeeps, ChangeGroupKeeps, BoardSaveKeeps, BlockKeeps, ReviewKeeps
     DEF BoardEdit
<1>2. CASE InlineEdit
  BY <1>2, DragKeeps, InlineGroupKeeps, GroupSelectionKeeps, InlineSaveKeeps DEF InlineEdit
<1>3. CASE Answer \/ Cancel
  BY <1>3, AnswerKeeps
<1>4. CASE \E v \in Views : ReplaceInEditor(v)
  BY <1>4, ReplaceKeeps
<1>5. CASE RerenderBoard
  BY <1>5, RerenderKeeps
<1>6. CASE TypeLine
  BY <1>6, TypeKeeps
<1>7. CASE RefreshInline
  BY <1>7, RefreshKeeps
<1>8. CASE UNCHANGED viewVars
  <2>1. buffer' = buffer /\ drawn' = drawn /\ job' = job
    BY <1>8 DEF viewVars
  <2> QED
    BY <2>1 DEF ViewInv, Holds
<1> QED
  BY <1>1, <1>2, <1>3, <1>4, <1>5, <1>6, <1>7, <1>8 DEF ViewNext

\* For any texts, names, ids and number of edits, also when writes meet a
\* text they were not made for: every text in play is a sequence of lines,
\* and two directives of one atom agree on all its attributes but name and
\* digest (parseAtoms, saveAttrs, minimalEdit).
THEOREM ViewsAreConsistent == ViewSpec => []ViewInv
<1>1. ViewInit => ViewInv
  BY InitInv
<1>2. ViewInv /\ [ViewNext]_viewVars => ViewInv'
  BY StepInv
<1> QED
  BY <1>1, <1>2, PTL DEF ViewSpec

\* A well-placed page has its markers in pairs and no id twice.
LEMMA PlacedFacts ==
    ASSUME NEW lines, WellPlaced(lines)
    PROVE  Paired(lines) /\ UniqueIds(lines)
BY DEF WellPlaced, UniqueIds

\* In a page that is consistent and well placed, grouping can be undone.
LEMMA ReversibleInv == ViewInv => GroupingIsReversible
<1> SUFFICES ASSUME ViewInv, WellPlaced(buffer) PROVE
      LET units == ComputeUnits(buffer) IN
      \A from, to \in DOMAIN units : from < to =>
        LET grouped == MarkUnits(buffer, units, {units[n].key : n \in from..to}, "fresh", <<>>)
        IN grouped.ok => RemoveGroupMarkers(grouped.text, <<"group", "fresh">>)
                           = Rewritten(buffer)
  BY DEF GroupingIsReversible
<1>1. IsSeq(buffer) /\ Paired(buffer)
  BY PlacedFacts DEF ViewInv
<1>2. \A keys : MarkUnits(buffer, ComputeUnits(buffer), keys, "fresh", <<>>).ok =>
         RemoveGroupMarkers(MarkUnits(buffer, ComputeUnits(buffer), keys, "fresh", <<>>).text,
                              <<"group", "fresh">>) = Rewritten(buffer)
  BY <1>1, UngroupUndoesGroup
<1> QED
  BY <1>2

\* For any page and any run of its units: removing the markers a grouping put
\* there gives back the page, to the line (insertGroupMarkers,
\* removeGroupMarkers).
THEOREM GroupingIsAlwaysReversible == ViewSpec => []GroupingIsReversible
<1>1. ViewInv => GroupingIsReversible
  BY ReversibleInv
<1> QED
  BY <1>1, ViewsAreConsistent, PTL

\* What lands is what its request makes of the text.
LEMMA LandedMakes ==
    ASSUME ViewInv, [ViewNext]_viewVars, NEW v \in Views, Landed(v)
    PROVE  /\ IsSeq(buffer) /\ IsSeq(buffer') /\ WellPlaced(buffer)
           /\ Paired(buffer) /\ UniqueIds(buffer)
           /\ Made(Asked(v), buffer, buffer') /\ buffer' # buffer
           /\ \E S : Consistent(S) /\ Range(buffer) \subseteq S /\ Range(buffer') \subseteq S
<1>1. /\ job[v].step = "write" /\ job'[v].step # "write" /\ buffer = job[v].old /\ WellPlaced(buffer)
  BY DEF Landed, Meets
<1>2. job[v] # Idle
  BY <1>1 DEF Idle
<1>3. Working(job[v]) /\ job = [w \in Views |-> job[w]] /\ IsSeq(buffer)
  BY <1>2 DEF ViewInv
<1>4. ASSUME NEW w \in Views, w # v, NEW k, job' = [job EXCEPT ![w] = k]
      PROVE FALSE
  <2>1. job'[v] = job[v]
    BY <1>3, <1>4
  <2> QED
    BY <1>1, <2>1
<1>5. ASSUME job' = job PROVE FALSE
  BY <1>1, <1>5
<1>6. ReplaceInEditor(v)
  <2>1. ASSUME BoardEdit \/ InlineEdit PROVE FALSE
    <3>1. PICK w \in Views : Free(w) /\ \E s, r, a : BeginEdit(w, s, r, a)
      <4>1. CASE BoardEdit
        BY <4>1 DEF BoardEdit, ReorderAtom, GroupAtoms, ChangeGroupAtoms, BoardSaveAttrs, SaveAtomBlock,
           RefreshDigests, UngroupAtoms, RenameGroup, Views
      <4>2. CASE InlineEdit
        BY <4>2 DEF InlineEdit, OnDecorationDrag, RenameHere, UngroupHere, GroupSelection, InlineSaveAttrs,
           UngroupAtoms, RenameGroup, Views
      <4> QED
        BY <2>1, <4>1, <4>2
    <3>2. w # v
      BY <1>2, <3>1 DEF Free
    <3>3. PICK k : job' = [job EXCEPT ![w] = k]
      BY <3>1 DEF BeginEdit
    <3> QED
      BY <1>4, <3>2, <3>3
  <2>2. ASSUME Answer \/ Cancel PROVE FALSE
    <3>1. job["inline"].step = "ask"
      BY <2>2 DEF Answer, Cancel
    <3>2. v # "inline"
      BY <1>1, <3>1
    <3>3. \E k : job' = [job EXCEPT !["inline"] = k]
      BY <2>2 DEF Answer, Cancel
    <3> QED
      BY <1>4, <3>2, <3>3 DEF Views
  <2>3. ASSUME RerenderBoard PROVE FALSE
    <3>1. job["board"].step = "draw" /\ job' = [job EXCEPT !["board"] = Idle]
      BY <2>3 DEF RerenderBoard
    <3>2. v # "board"
      BY <1>1, <3>1
    <3> QED
      BY <1>4, <3>1, <3>2 DEF Views
  <2>4. ASSUME TypeLine \/ RefreshInline \/ UNCHANGED viewVars PROVE FALSE
    BY <1>5, <2>4 DEF TypeLine, RefreshInline, viewVars
  <2>5. ASSUME NEW w \in Views, ReplaceInEditor(w) PROVE w = v
    <3>1. \E k : job' = [job EXCEPT ![w] = k]
      BY <2>5 DEF ReplaceInEditor
    <3> QED
      BY <1>4, <3>1
  <2> QED
    BY <2>3, <2>4, <2>5, <2>1, <2>2 DEF ViewNext
<1> DEFINE old == job[v].old
           new == job[v].new
<1>7. IsSeq(old) /\ IsSeq(new) /\ Made(Asked(v), old, new) /\ old = buffer /\ new # old
  BY <1>1, <1>3 DEF Working, Asked
<1>8. buffer' = IF InRange(buffer, MinimalEdit(old, new)) THEN ReplaceRange(buffer, MinimalEdit(old, new)) ELSE buffer
  BY <1>6 DEF ReplaceInEditor
<1>9. buffer' = new
  <2> HIDE DEF old, new
  <2> QED
    BY <1>7, <1>8, MinimalEditIsRight
<1>10. PICK S : Holds(S)
  BY DEF ViewInv
<1>11. Consistent(S) /\ Range(buffer) \subseteq S /\ Range(new) \subseteq S
  BY <1>2, <1>10 DEF Holds
<1> QED
  BY <1>1, <1>7, <1>9, <1>11, PlacedFacts

----------------------------------------
(* Digests *)

Mark(l) == IF "digest" \in DOMAIN l.attrs THEN l.attrs["digest"] ELSE <<>>
\* Every directive of one text is in the other, with its id and its digest.
Marked(L, N, but) ==
    \A i \in 1..Len(L) : (L[i].kind = "atom" /\ IdOf(L[i]) \notin but) =>
       \E j \in 1..Len(N) : N[j].kind = "atom" /\ IdOf(N[j]) = IdOf(L[i]) /\ Mark(N[j]) = Mark(L[i])

\* Two texts with the same marks have the same digests.
LEMMA SameDigests ==
    ASSUME NEW L, NEW N, NEW but, IsSeq(L), IsSeq(N), Marked(L, N, but), Marked(N, L, but)
    PROVE  Digests(N, but) = Digests(L, but)
<1>1. ASSUME NEW A, NEW B, IsSeq(A), IsSeq(B), Marked(A, B, but)
      PROVE  Digests(A, but) \subseteq Digests(B, but)
  <2> SUFFICES ASSUME NEW l \in Range(A), l.kind = "atom", IdOf(l) \notin but
               PROVE  <<IdOf(l), Mark(l)>> \in Digests(B, but)
    BY DEF Digests, Mark
  <2>1. PICK i \in 1..Len(A) : l = A[i]
    BY <1>1, SeqDomain DEF Range
  <2>2. PICK j \in 1..Len(B) : B[j].kind = "atom" /\ IdOf(B[j]) = IdOf(l) /\ Mark(B[j]) = Mark(l)
    BY <1>1, <2>1 DEF Marked
  <2>3. B[j] \in Range(B)
    BY <1>1, SeqDomain DEF Range
  <2>4. <<IdOf(B[j]), Mark(B[j])>> \in Digests(B, but)
    BY <2>2, <2>3 DEF Digests, Mark
  <2> QED
    BY <2>2, <2>4
<1> QED
  BY <1>1

\* The lines that are no directive are of no account.
LEMMA MarkedCopy ==
    ASSUME NEW L, NEW N, NEW but,
           \A i \in 1..Len(L) : L[i].kind = "atom" => \E j \in 1..Len(N) : N[j] = L[i]
    PROVE  Marked(L, N, but)
BY DEF Marked

\* What a move makes of a text: the text itself, or its units laid out in a new order.
LEMMA ReorderLaid ==
    ASSUME NEW L, IsSeq(L), Paired(L), UniqueIds(L), NEW moved, NEW target, NEW place, place # "start",
           NEW N, ReorderUnit(L, moved, target, place) = Rewritten(N), N # L
    PROVE  LET U == ComputeUnits(L)
               m == FindUnit(U, moved)
               t == TargetIndex(U, target, place)
               order == MovedOrder(Len(U), m, t)
           IN /\ m \in 1..Len(U) /\ t \in 1..(Len(U) + 1) /\ moved # target
              /\ target = None \/ FindUnit(U, target) \in 1..Len(U)
              /\ Permutes(L, order) /\ \E g : Laid(L, N, order, g)
<1> DEFINE U == ComputeUnits(L)
           n == Len(U)
           m == FindUnit(U, moved)
           t == TargetIndex(U, target, place)
           order == MovedOrder(n, m, t)
<1>1. /\ m \in 1..n /\ n \in Nat /\ moved # target /\ t \in 1..(n + 1)
      /\ target = None \/ FindUnit(U, target) \in 1..n
      /\ N = Rearranged(L, U, order)
  BY ReorderIs
<1>2. IsSeq(order) /\ DOMAIN order = 1..n
  <2> HIDE DEF m, t, n
  <2> QED
    BY <1>1, MovedFacts
<1>3. Shuffles(order, n)
  <2> HIDE DEF m, t, n
  <2> QED
    BY <1>1, MovedPermutes
<1>6. n = Len(ComputeUnits(L)) /\ N = Rearranged(L, ComputeUnits(L), order)
  BY <1>1
<1> HIDE DEF order, n
<1>7. Permutes(L, order)
  BY <1>1, <1>2, <1>3, <1>6 DEF Permutes, Shuffles
<1>8. \E g : Laid(L, N, order, g)
  BY <1>6, <1>7, Layout
<1> QED
  BY <1>1, <1>7, <1>8 DEF order, n

\* A move leaves every digest.
LEMMA ReorderMarks ==
    ASSUME NEW L, IsSeq(L), Paired(L), UniqueIds(L), NEW moved, NEW target, NEW place, place # "start",
           NEW N, ReorderUnit(L, moved, target, place) = Rewritten(N), IsSeq(N), NEW but
    PROVE  Marked(L, N, but) /\ Marked(N, L, but)
<1> DEFINE U == ComputeUnits(L)
           m == FindUnit(U, moved)
           t == TargetIndex(U, target, place)
           order == MovedOrder(Len(U), m, t)
<1>2. CASE N = L
  BY <1>2 DEF Marked
<1>3. CASE N # L
  <2>1. Permutes(L, order) /\ \E g : Laid(L, N, order, g)
    BY <1>3, ReorderLaid
  <2> HIDE DEF order, t, m
  <2>2. PICK g : Laid(L, N, order, g)
    BY <2>1
  <2>3. \A k \in 1..Len(U) : order[k] \in 1..Len(U)
    BY <2>1 DEF Permutes
  <2>4. \A u \in 1..Len(U) : \E k \in 1..Len(U) : order[k] = u
    BY <2>1 DEF Permutes
  <2>5. /\ Len(L) \in Nat /\ Len(N) \in Nat /\ PreambleEnd(L) \in 0..Len(L)
    BY SeqDomain, PreambleFacts
  <2>6. /\ \A c \in 1..Len(U) : /\ U[c].first \in 1..Len(L) /\ U[c].last \in U[c].first..Len(L)
                                /\ U[c].last \in 1..Len(L) /\ PreambleEnd(L) < U[c].first
        /\ \A i \in 1..Len(L) :
              (PreambleEnd(L) < i /\ \A c \in 1..Len(U) : i < U[c].first \/ U[c].last < i)
                  => IsBlank(L[i])
    BY UnitLines
  <2>7. /\ PreambleEnd(L) <= Len(N)
        /\ \A p \in 1..PreambleEnd(L) : N[p] = L[p]
        /\ \A k \in 1..Len(U) :
            /\ g[k] \in Nat /\ PreambleEnd(L) < g[k] /\ g[k] + Reach(L, order, k) <= Len(N)
            /\ \A i \in 0..Reach(L, order, k) : N[g[k] + i] = L[U[order[k]].first + i]
        /\ \A p \in (PreambleEnd(L) + 1)..Len(N) :
            IsBlank(N[p]) \/ \E k \in 1..Len(U) : g[k] <= p /\ p <= g[k] + Reach(L, order, k)
    BY <2>2 DEF Laid
  <2>8. \A k \in 1..Len(U) : Reach(L, order, k) = U[order[k]].last - U[order[k]].first
    BY DEF Reach
  <2> HIDE DEF U
  <2> DEFINE pe == PreambleEnd(L)
  <2>9. ASSUME NEW i \in 1..Len(L), L[i].kind = "atom"
        PROVE  \E j \in 1..Len(N) : N[j] = L[i]
    <3>1. CASE i <= pe
      BY <2>5, <2>7, <3>1
    <3>2. CASE pe < i
      <4>1. ~IsBlank(L[i])
        BY <2>9 DEF IsBlank
      <4>2. PICK c \in 1..Len(U) : ~(i < U[c].first \/ U[c].last < i)
        BY <2>6, <3>2, <4>1
      <4>3. PICK k \in 1..Len(U) : order[k] = c
        BY <2>4
      <4> DEFINE x == U[c].first
                 y == U[c].last
                 r == Reach(L, order, k)
                 h == g[k]
      <4>4. x \in Nat /\ y \in Nat /\ r = y - x /\ x <= i /\ i <= y /\ h \in Nat /\ h + r <= Len(N) /\ pe < h /\ pe \in Nat
        BY <2>5, <2>6, <2>7, <2>8, <4>2, <4>3
      <4>5. \A e \in 0..r : N[h + e] = L[x + e]
        BY <2>7, <4>3
      <4> HIDE DEF x, y, r, h
      <4>6. i - x \in 0..r /\ h + (i - x) \in 1..Len(N) /\ x + (i - x) = i
        BY <2>5, <4>4
      <4> QED
        BY <4>5, <4>6
    <3> QED
      BY <2>5, <3>1, <3>2
  <2>10. ASSUME NEW p \in 1..Len(N), N[p].kind = "atom"
         PROVE  \E j \in 1..Len(L) : L[j] = N[p]
    <3>1. CASE p <= pe
      <4>1. p \in 1..pe /\ p \in 1..Len(L)
        BY <2>5, <3>1
      <4> QED
        BY <2>7, <4>1
    <3>2. CASE pe < p
      <4>1. ~IsBlank(N[p])
        BY <2>10 DEF IsBlank
      <4>2. PICK k \in 1..Len(U) : g[k] <= p /\ p <= g[k] + Reach(L, order, k)
        BY <2>5, <2>7, <3>2, <4>1
      <4> DEFINE c == order[k]
                 x == U[c].first
                 y == U[c].last
                 r == Reach(L, order, k)
                 h == g[k]
      <4>3. c \in 1..Len(U)
        BY <2>3
      <4>4. x \in 1..Len(L) /\ y \in 1..Len(L) /\ r = y - x /\ h \in Nat /\ h <= p /\ p <= h + r
        BY <2>6, <2>7, <2>8, <4>2, <4>3
      <4>5. \A e \in 0..r : N[h + e] = L[x + e]
        BY <2>7
      <4> HIDE DEF x, y, r, h, c
      <4>6. p - h \in 0..r /\ x + (p - h) \in 1..Len(L) /\ h + (p - h) = p
        BY <2>5, <4>4
      <4> QED
        BY <4>5, <4>6
    <3> QED
      BY <2>5, <3>1, <3>2
  <2> QED
    BY <2>9, <2>10, MarkedCopy
<1> QED
  BY <1>2, <1>3

\* Marks are carried over two rewrites.
LEMMA MarkedMore ==
    ASSUME NEW L, NEW M, NEW N, NEW but, Marked(L, M, but), Marked(M, N, but)
    PROVE  Marked(L, N, but)
<1> SUFFICES ASSUME NEW i \in 1..Len(L), L[i].kind = "atom", IdOf(L[i]) \notin but
             PROVE  \E j \in 1..Len(N) : N[j].kind = "atom" /\ IdOf(N[j]) = IdOf(L[i]) /\ Mark(N[j]) = Mark(L[i])
  BY DEF Marked
<1>1. PICK k \in 1..Len(M) : M[k].kind = "atom" /\ IdOf(M[k]) = IdOf(L[i]) /\ Mark(M[k]) = Mark(L[i])
  BY DEF Marked
<1> QED
  BY <1>1 DEF Marked

\* Taking out a line that is no directive leaves every digest.
LEMMA DropMarks ==
    ASSUME NEW s, IsSeq(s), NEW p \in 1..Len(s), s[p].kind # "atom", NEW but
    PROVE  Marked(s, RemoveAt(s, p), but) /\ Marked(RemoveAt(s, p), s, but)
<1> DEFINE t == RemoveAt(s, p)
<1>1. /\ Len(t) = Len(s) - 1 /\ Len(s) \in Nat
      /\ \A i \in 1..(p - 1) : t[i] = s[i]
      /\ \A i \in p..(Len(s) - 1) : t[i] = s[i + 1]
  BY Removed, SeqDomain
<1> HIDE DEF t
<1>2. ASSUME NEW i \in 1..Len(s), s[i].kind = "atom" PROVE \E j \in 1..Len(t) : t[j] = s[i]
  <2>1. CASE i < p
    <3>1. i \in 1..(p - 1) /\ i \in 1..Len(t)
      BY <1>1, <2>1
    <3> QED
      BY <1>1, <3>1
  <2>2. CASE p < i
    <3>1. i - 1 \in p..(Len(s) - 1) /\ i - 1 \in 1..Len(t) /\ (i - 1) + 1 = i
      BY <1>1, <2>2
    <3> QED
      BY <1>1, <3>1
  <2> QED
    BY <1>2, <2>1, <2>2
<1>3. ASSUME NEW i \in 1..Len(t), t[i].kind = "atom" PROVE \E j \in 1..Len(s) : s[j] = t[i]
  <2>1. CASE i < p
    <3>1. i \in 1..(p - 1) /\ i \in 1..Len(s)
      BY <1>1, <2>1
    <3> QED
      BY <1>1, <3>1
  <2>2. CASE p <= i
    <3>1. i \in p..(Len(s) - 1) /\ i + 1 \in 1..Len(s)
      BY <1>1, <2>2
    <3> QED
      BY <1>1, <3>1
  <2> QED
    BY <2>1, <2>2
<1> QED
  BY <1>2, <1>3, MarkedCopy DEF t

\* Taking out a line takes out the blank line below as well, or it does not.
LEMMA CollapseIs ==
    ASSUME NEW s, IsSeq(s), NEW p \in 1..Len(s)
    PROVE  LET t == RemoveAt(s, p) IN
           /\ IsSeq(t) /\ Len(t) = Len(s) - 1 /\ Len(t) \in Nat
           /\ \/ RemoveLineCollapsingSeam(s, p) = t
              \/ /\ RemoveLineCollapsingSeam(s, p) = RemoveAt(t, p)
                 /\ p > 1 /\ p \in 1..Len(t) /\ IsBlank(t[p - 1]) /\ IsBlank(t[p])
<1> DEFINE t == RemoveAt(s, p)
<1>1. IsSeq(t) /\ Len(t) = Len(s) - 1 /\ Len(s) \in Nat
  BY Removed, SeqDomain
<1>2. RemoveLineCollapsingSeam(s, p) =
        IF p > 1 /\ p <= Len(t) /\ IsBlank(t[p - 1]) /\ IsBlank(t[p]) THEN RemoveAt(t, p) ELSE t
  BY DEF RemoveLineCollapsingSeam
<1> HIDE DEF t
<1>3. p > 1 /\ p <= Len(t) => p \in 1..Len(t)
  BY <1>1
<1>4. Len(t) \in Nat
  BY <1>1
<1> QED
  BY <1>1, <1>2, <1>3, <1>4 DEF t

\* So does taking out its doubled seam.
LEMMA CollapseMarks ==
    ASSUME NEW s, IsSeq(s), NEW p \in 1..Len(s), s[p].kind # "atom", NEW but
    PROVE  LET t == RemoveLineCollapsingSeam(s, p) IN
           Marked(s, t, but) /\ Marked(t, s, but) /\ IsSeq(t)
<1> DEFINE a == RemoveAt(s, p)
           t == RemoveLineCollapsingSeam(s, p)
<1>1. /\ IsSeq(a)
      /\ \/ t = a
         \/ t = RemoveAt(a, p) /\ p \in 1..Len(a) /\ IsBlank(a[p])
  BY CollapseIs
<1>2. Marked(s, a, but) /\ Marked(a, s, but)
  BY DropMarks
<1> HIDE DEF a, t
<1>3. CASE t = a
  BY <1>1, <1>2, <1>3 DEF t
<1>4. CASE t = RemoveAt(a, p) /\ p \in 1..Len(a) /\ IsBlank(a[p])
  <2>1. a[p].kind # "atom"
    BY <1>4 DEF IsBlank
  <2>2. Marked(a, t, but) /\ Marked(t, a, but) /\ IsSeq(t)
    BY <1>1, <1>4, <2>1, DropMarks, Removed
  <2> QED
    BY <1>2, <2>2, MarkedMore DEF t
<1> QED
  BY <1>1, <1>3, <1>4

\* What an ungrouping takes out: the two markers of the group that has the id.
LEMMA UngroupMarkers ==
    ASSUME NEW L, IsSeq(L), Paired(L), NEW key, IsGroupKey(key), ~GroupFault(L, key),
           NEW N, RemoveGroupMarkers(L, key) = Rewritten(N)
    PROVE  \E o \in 1..Len(L) : \E c \in (o + 1)..Len(L) :
             /\ o \in UnitStarts(L) /\ c = UnitEnd(L, o)
             /\ L[o].kind = "open" /\ L[c].kind = "close"
             /\ \A k \in (o + 1)..(c - 1) : ~IsMarker(L[k])
             /\ HasAttr(L[o], "id") /\ key = <<"group", L[o].attrs["id"]>>
             /\ N = RemoveLineCollapsingSeam(RemoveLineCollapsingSeam(L, c), o)
<1> DEFINE U == ComputeUnits(L)
           n == FindUnit(U, key)
           o == U[n].first
           c == U[n].last
<1>1. /\ n \in 1..Len(U) /\ U[n].key = key
      /\ L[c].kind = "close"
      /\ N = RemoveLineCollapsingSeam(RemoveLineCollapsingSeam(L, c), o)
  BY UngroupIs
<1>2. /\ o \in UnitStarts(L) /\ c = UnitEnd(L, o) /\ IsSeq(U)
      /\ U[n] = UnitAt(L, UnitStarts(L), o)
  BY <1>1, ComputeFacts
<1>3. U[n].fault = "none"
  <2>1. U[n] \in Range(U)
    BY <1>1, <1>2, SeqDomain DEF Range
  <2> QED
    BY <1>1, <2>1 DEF GroupFault
<1>4. L[o].kind = "open" /\ HasAttr(L[o], "id") /\ key = <<"group", L[o].attrs["id"]>>
  <2> DEFINE u == UnitAt(L, UnitStarts(L), o)
  <2>1. u.key = key /\ u.fault = "none"
    BY <1>1, <1>2, <1>3
  <2>2. key[1] \in {"group", "line"}
    BY DEF IsGroupKey
  <2>3. /\ u.kind = "atom" => u.key = <<"atom", L[o].attrs["id"]>>
        /\ u.kind = "implicit" => u.key[1] = "implicit"
        /\ u.kind = "group" =>
                \/ u.key = <<"line", o>> /\ u.fault # "none"
                \/ /\ u.key = <<"group", L[o].attrs["id"]>> /\ u.fault = "none"
                   /\ HasAttr(L[o], "id")
        /\ u.kind \in {"atom", "implicit", "group"}
        /\ u.kind = "group" <=> L[o].kind = "open"
    BY KeyFacts
  <2> HIDE DEF u, o
  <2>4. u.kind # "atom"
    <3>1. ASSUME u.kind = "atom" PROVE FALSE
      <4>1. key = <<"atom", L[o].attrs["id"]>>
        BY <2>1, <2>3, <3>1
      <4>2. key[1] = "atom"
        BY <4>1
      <4> QED
        BY <2>2, <4>2
    <3> QED
      BY <3>1
  <2>5. u.kind # "implicit"
    <3>1. ASSUME u.kind = "implicit" PROVE FALSE
      <4>1. key[1] = "implicit"
        BY <2>1, <2>3, <3>1
      <4> QED
        BY <2>2, <4>1
    <3> QED
      BY <3>1
  <2>6. u.kind = "group"
    BY <2>3, <2>4, <2>5
  <2> QED
    BY <2>1, <2>3, <2>6
<1>5. /\ o \in 1..Len(L) /\ UnitEnd(L, o) \in o..Len(L) /\ o < UnitEnd(L, o)
      /\ \A k \in (o + 1)..(UnitEnd(L, o) - 1) : ~IsMarker(L[k])
  BY <1>2, <1>4, UnitFacts
<1>6. c \in (o + 1)..Len(L) /\ \A k \in (o + 1)..(c - 1) : ~IsMarker(L[k])
  <2>1. Len(L) \in Nat
    BY SeqDomain
  <2> HIDE DEF o, c
  <2> QED
    BY <1>2, <1>5, <2>1
<1> HIDE DEF o, c
<1> QED
  BY <1>1, <1>2, <1>4, <1>5, <1>6

\* The lines above a line taken out stay where they are.
LEMMA BeforeCut ==
    ASSUME NEW s, IsSeq(s), NEW p \in 1..Len(s), NEW i \in 1..(p - 1)
    PROVE  RemoveLineCollapsingSeam(s, p)[i] = s[i] /\ i \in 1..Len(RemoveLineCollapsingSeam(s, p))
<1> DEFINE a == RemoveAt(s, p)
           t == RemoveLineCollapsingSeam(s, p)
<1>1. /\ IsSeq(a) /\ Len(a) = Len(s) - 1 /\ Len(a) \in Nat /\ Len(s) \in Nat
      /\ \/ t = a
         \/ t = RemoveAt(a, p) /\ p \in 1..Len(a)
  BY CollapseIs, SeqDomain
<1>2. a[i] = s[i] /\ i \in 1..Len(a)
  BY <1>1, Removed
<1>3. CASE t = a
  BY <1>2, <1>3
<1>4. CASE t = RemoveAt(a, p) /\ p \in 1..Len(a)
  <2> HIDE DEF a, t
  <2>1. Len(RemoveAt(a, p)) = Len(a) - 1 /\ RemoveAt(a, p)[i] = a[i]
    BY <1>1, <1>4, Removed
  <2>2. i \in 1..Len(t)
    BY <1>1, <1>4, <2>1
  <2> QED
    BY <1>2, <1>4, <2>1, <2>2 DEF t
<1> QED
  BY <1>1, <1>3, <1>4

\* Ungrouping leaves every digest.
LEMMA UngroupMarks ==
    ASSUME NEW L, IsSeq(L), Paired(L), NEW key, IsGroupKey(key), ~GroupFault(L, key),
           NEW N, RemoveGroupMarkers(L, key) = Rewritten(N), NEW but
    PROVE  Marked(L, N, but) /\ Marked(N, L, but)
<1>1. PICK o \in 1..Len(L) : \E c \in (o + 1)..Len(L) :
             /\ L[o].kind = "open" /\ L[c].kind = "close"
             /\ N = RemoveLineCollapsingSeam(RemoveLineCollapsingSeam(L, c), o)
  BY UngroupMarkers
<1>2. PICK c \in (o + 1)..Len(L) :
             /\ L[o].kind = "open" /\ L[c].kind = "close"
             /\ N = RemoveLineCollapsingSeam(RemoveLineCollapsingSeam(L, c), o)
  BY <1>1
<1> DEFINE B == RemoveLineCollapsingSeam(L, c)
<1>3. c \in 1..Len(L) /\ o \in 1..(c - 1)
  BY SeqDomain
<1>4. Marked(L, B, but) /\ Marked(B, L, but) /\ IsSeq(B)
  BY <1>2, <1>3, CollapseMarks
<1>5. B[o] = L[o] /\ o \in 1..Len(B)
  BY <1>3, BeforeCut
<1> HIDE DEF B
<1>6. Marked(B, N, but) /\ Marked(N, B, but)
  BY <1>2, <1>4, <1>5, CollapseMarks DEF B
<1> QED
  BY <1>4, <1>6, MarkedMore

\* Grouping leaves every digest.
LEMMA GroupMarks ==
    ASSUME NEW L, IsSeq(L), NEW keys, NEW id, NEW given,
           NEW N, InsertGroupMarkers(L, keys, id, given) = Rewritten(N), NEW but
    PROVE  Marked(L, N, but) /\ Marked(N, L, but)
<1> DEFINE U == ComputeUnits(L)
           open == Open(NewGroup(id, given))
<1>1. PICK a \in 1..Len(U) : \E b \in a..Len(U) : N = Around(L, U[a].first, U[b].last, open)
  BY GroupIs
<1>2. PICK b \in a..Len(U) : N = Around(L, U[a].first, U[b].last, open)
  BY <1>1
<1> DEFINE f == U[a].first
           t == U[b].last
<1>3. f \in 1..Len(L) /\ t \in f..Len(L) /\ Len(L) \in Nat
  <2>1. IsSeq(U) /\ Len(U) \in Nat /\ (a < b => U[a].first < U[b].first)
    BY ComputeFacts
  <2>2. b \in 1..Len(U)
    BY <2>1
  <2>3. U[a].first \in 1..Len(L) /\ U[b].first \in 1..Len(L) /\ U[b].last \in U[b].first..Len(L)
    BY <2>2, AnyUnit
  <2>4. Len(L) \in Nat
    BY SeqDomain
  <2> HIDE DEF U
  <2>5. a = b \/ a < b
    BY <2>1
  <2> QED
    BY <2>1, <2>3, <2>4, <2>5
<1>10. N = Around(L, f, t, open)
  BY <1>2
<1>4. open.kind # "atom" /\ Close.kind # "atom"
  BY DEF Open, Close
<1> HIDE DEF f, t, open, U
<1>5. /\ Len(N) = Len(L) + 2
      /\ \A i \in 1..(f - 1) : N[i] = L[i]
      /\ N[f] = open
      /\ \A i \in (f + 1)..(t + 1) : N[i] = L[i - 1]
      /\ N[t + 2] = Close
      /\ \A i \in (t + 3)..(Len(L) + 2) : N[i] = L[i - 2]
  BY <1>10, <1>3, AroundFacts
<1>6. ASSUME NEW i \in 1..Len(L), L[i].kind = "atom" PROVE \E j \in 1..Len(N) : N[j] = L[i]
  <2>1. CASE i < f
    <3>1. i \in 1..(f - 1) /\ i \in 1..Len(N)
      BY <1>3, <1>5, <2>1
    <3> QED
      BY <1>5, <3>1
  <2>2. CASE f <= i /\ i <= t
    <3>1. i + 1 \in (f + 1)..(t + 1) /\ i + 1 \in 1..Len(N) /\ (i + 1) - 1 = i
      BY <1>3, <1>5, <2>2
    <3> QED
      BY <1>5, <3>1
  <2>3. CASE t < i
    <3>1. i + 2 \in (t + 3)..(Len(L) + 2) /\ i + 2 \in 1..Len(N) /\ (i + 2) - 2 = i
      BY <1>3, <1>5, <2>3
    <3> QED
      BY <1>5, <3>1
  <2> QED
    BY <1>3, <2>1, <2>2, <2>3
<1>7. ASSUME NEW i \in 1..Len(N), N[i].kind = "atom" PROVE \E j \in 1..Len(L) : L[j] = N[i]
  <2>1. CASE i < f
    <3>1. i \in 1..(f - 1) /\ i \in 1..Len(L)
      BY <1>3, <1>5, <2>1
    <3> QED
      BY <1>5, <3>1
  <2>2. CASE f < i /\ i <= t + 1
    <3>1. i \in (f + 1)..(t + 1) /\ i - 1 \in 1..Len(L)
      BY <1>3, <1>5, <2>2
    <3> QED
      BY <1>5, <3>1
  <2>3. CASE t + 2 < i
    <3>1. i \in (t + 3)..(Len(L) + 2) /\ i - 2 \in 1..Len(L)
      BY <1>3, <1>5, <2>3
    <3> QED
      BY <1>5, <3>1
  <2>4. i # f /\ i # t + 2
    BY <1>4, <1>5, <1>7
  <2> QED
    BY <1>3, <1>5, <2>1, <2>2, <2>3, <2>4
<1> QED
  BY <1>6, <1>7, MarkedCopy

\* Replacing one directive leaves every digest but its own.
LEMMA PatchMarks ==
    ASSUME NEW L, IsSeq(L), NEW p \in 1..Len(L), NEW x, NEW but,
           \/ L[p].kind # "atom" /\ x.kind # "atom"
           \/ L[p].kind = "atom" /\ x.kind = "atom" /\ IdOf(x) = IdOf(L[p]) /\
              (IdOf(x) \in but \/ Mark(x) = Mark(L[p]))
    PROVE  Marked(L, Patched(L, p, x), but) /\ Marked(Patched(L, p, x), L, but)
<1> DEFINE N == Patched(L, p, x)
<1>1. /\ Len(N) = Len(L) /\ N[p] = x
      /\ \A i \in 1..Len(L) : i # p => N[i] = L[i]
  BY PatchedFacts
<1> HIDE DEF N
<1>2. ASSUME NEW i \in 1..Len(L), L[i].kind = "atom", IdOf(L[i]) \notin but
      PROVE  N[i].kind = "atom" /\ IdOf(N[i]) = IdOf(L[i]) /\ Mark(N[i]) = Mark(L[i])
  BY <1>1, <1>2
<1>3. ASSUME NEW i \in 1..Len(N), N[i].kind = "atom", IdOf(N[i]) \notin but
      PROVE  L[i].kind = "atom" /\ IdOf(L[i]) = IdOf(N[i]) /\ Mark(L[i]) = Mark(N[i])
  BY <1>1, <1>3
<1> QED
  BY <1>1, <1>2, <1>3 DEF Marked, N

\* A rename leaves every digest.
LEMMA NameMarks ==
    ASSUME NEW L, IsSeq(L), NEW id, NEW given, NEW N, NEW but,
           SetAtomSlug(L, id, given) = Rewritten(N) \/ SetGroupSlug(L, id, given) = Rewritten(N)
    PROVE  Marked(L, N, but) /\ Marked(N, L, but)
<1>1. CASE SetAtomSlug(L, id, given) = Rewritten(N)
  <2>1. PICK at \in 1..Len(L) :
             IsAtom(L[at], id) /\ N = Patched(L, at, AtomTag(Renamed(L[at].attrs, given)))
    BY <1>1, AtomNameIs
  <2> DEFINE a == L[at].attrs
             b == Renamed(a, given)
             x == AtomTag(b)
  <2>2. /\ "id" \in DOMAIN b <=> "id" \in DOMAIN a
        /\ "id" \in DOMAIN a => b["id"] = a["id"]
        /\ "digest" \in DOMAIN b <=> "digest" \in DOMAIN a
        /\ "digest" \in DOMAIN a => b["digest"] = a["digest"]
    BY RenamedFacts
  <2> HIDE DEF b
  <2>3. x.kind = "atom" /\ x.attrs = b
    BY DEF AtomTag
  <2>4. L[at].kind = "atom" /\ IdOf(x) = IdOf(L[at]) /\ Mark(x) = Mark(L[at])
    BY <2>1, <2>2, <2>3 DEF IdOf, HasAttr, Mark, IsAtom
  <2> HIDE DEF x
  <2> QED
    BY <2>1, <2>3, <2>4, PatchMarks DEF b, x
<1>2. CASE SetGroupSlug(L, id, given) = Rewritten(N)
  <2>1. PICK at \in 1..Len(L) :
             IsOpen(L[at], id) /\ N = Patched(L, at, Open(Renamed(L[at].attrs, given)))
    BY <1>2, GroupNameIs
  <2> DEFINE x == Open(Renamed(L[at].attrs, given))
  <2>2. L[at].kind # "atom" /\ x.kind # "atom"
    BY <2>1 DEF IsOpen, Open
  <2> HIDE DEF x
  <2> QED
    BY <2>1, <2>2, PatchMarks DEF x
<1> QED
  BY <1>1, <1>2

\* The attribute editor leaves every digest but its card's.
LEMMA AttrsMarks ==
    ASSUME NEW L, IsSeq(L), NEW id, NEW sent, NEW N, SaveAttrs(L, id, sent) = Rewritten(N)
    PROVE  Marked(L, N, {id}) /\ Marked(N, L, {id})
<1>1. PICK at \in 1..Len(L) : IsAtom(L[at], id) /\ N = Patched(L, at, AtomTag(Saved(id, sent)))
  BY SaveIs
<1> DEFINE x == AtomTag(Saved(id, sent))
<1>2. "id" \in DOMAIN Saved(id, sent) /\ Saved(id, sent)["id"] = id
  BY SavedFacts
<1>3. x.kind = "atom" /\ IdOf(x) = id /\ L[at].kind = "atom" /\ IdOf(L[at]) = id
  BY <1>1, <1>2 DEF AtomTag, IdOf, HasAttr, IsAtom
<1> HIDE DEF x
<1> QED
  BY <1>1, <1>3, PatchMarks DEF x

\* An edit of a card's text leaves every digest.
LEMMA BlockMarks ==
    ASSUME NEW L, IsSeq(L), NEW id, NEW page, IsSeq(page),
           NEW N, ReplaceAtomBlock(L, id, page) = Rewritten(N), NEW but
    PROVE  Marked(L, N, but) /\ Marked(N, L, but)
<1> DEFINE b == Trimmed(page)
<1>1. PICK at \in 1..Len(L) :
             /\ IsAtom(L[at], id)
             /\ N = Rebuilt(L, at, b)
             /\ \A k \in 1..Len(b) : ~LooksLikeDirectiveLine(b[k])
  BY BlockIs
<1>2. IsSeq(b) /\ Len(b) \in Nat /\ Len(L) \in Nat
  BY TrimmedFacts, SeqDomain
<1> HIDE DEF b
<1> DEFINE e == UnitEnd(L, at)
<1>3. L[at].kind # "open"
  BY <1>1 DEF IsAtom
<1>4. e \in at..Len(L) /\ \A k \in (at + 1)..e : ~IsBoundary(L[k])
  BY <1>3, PlainEnd
<1>5. /\ Len(N) = Len(L) - (e - at) + Len(b)
      /\ \A i \in 1..at : N[i] = L[i]
      /\ \A i \in 1..Len(b) : N[at + i] = b[i]
      /\ \A i \in 1..(Len(L) - e) : N[at + Len(b) + i] = L[e + i]
  <2>1. Spliced(L, at, e, b, N)
    BY <1>1, <1>2, RebuiltFacts
  <2> QED
    BY <2>1 DEF Spliced
<1> HIDE DEF e
<1>6. ASSUME NEW i \in 1..Len(L), L[i].kind = "atom" PROVE \E j \in 1..Len(N) : N[j] = L[i]
  <2>1. CASE i <= at
    <3>1. i \in 1..at /\ i \in 1..Len(N)
      BY <1>2, <1>4, <1>5, <2>1
    <3> QED
      BY <1>5, <3>1
  <2>2. CASE e < i
    <3>1. /\ i - e \in 1..(Len(L) - e) /\ e + (i - e) = i
          /\ at + Len(b) + (i - e) \in 1..Len(N)
      BY <1>2, <1>4, <1>5, <2>2
    <3> QED
      BY <1>5, <3>1
  <2>3. CASE at < i /\ i <= e
    <3>1. i \in (at + 1)..e
      BY <1>2, <1>4, <2>3
    <3> QED
      BY <1>4, <1>6, <3>1 DEF IsBoundary, LooksLikeDirectiveLine
  <2> QED
    BY <1>2, <1>4, <2>1, <2>2, <2>3
<1>7. ASSUME NEW i \in 1..Len(N), N[i].kind = "atom" PROVE \E j \in 1..Len(L) : L[j] = N[i]
  <2>1. CASE i <= at
    <3>1. i \in 1..at /\ i \in 1..Len(L)
      BY <1>2, <1>4, <1>5, <2>1
    <3> QED
      BY <1>5, <3>1
  <2>2. CASE at + Len(b) < i
    <3> DEFINE k == i - (at + Len(b))
    <3>1. /\ k \in 1..(Len(L) - e) /\ at + Len(b) + k = i /\ e + k \in 1..Len(L)
      BY <1>2, <1>4, <1>5, <2>2
    <3> HIDE DEF k
    <3> QED
      BY <1>5, <3>1
  <2>3. CASE at < i /\ i <= at + Len(b)
    <3>1. i - at \in 1..Len(b) /\ at + (i - at) = i
      BY <1>2, <1>4, <2>3
    <3>2. N[i] = b[i - at]
      BY <1>5, <3>1
    <3> QED
      BY <1>1, <1>7, <3>1, <3>2 DEF LooksLikeDirectiveLine
  <2> QED
    BY <1>2, <1>4, <1>5, <2>1, <2>2, <2>3
<1> QED
  BY <1>6, <1>7, MarkedCopy

\* A review enters only the cards that were asked for.
LEMMA EntriesAsked ==
    ASSUME NEW L, NEW ids
    PROVE  DOMAIN ReviewEntries(L, ids) \subseteq ids
BY DEF ReviewEntries, EntriesOf

\* What a review writes on a line: nothing that tells it from the line it was, but the
\* digest where it was asked for.
LEMMA StampedFacts ==
    ASSUME NEW l, NEW entries
    PROVE  LET m == Stamped(l, entries) IN
           /\ m.kind = l.kind
           /\ m.kind # "atom" => m = l
           /\ m.kind = "atom" => (HasAttr(m, "id") <=> HasAttr(l, "id"))
           /\ m.kind = "atom" => IdOf(m) = IdOf(l)
           /\ m.kind = "atom" => Kept(m.attrs) = Kept(l.attrs)
           /\ (m.kind = "atom" /\ HasAttr(l, "id")) => m.attrs["id"] = l.attrs["id"]
           /\ (m.kind = "atom" /\ (HasAttr(l, "id") => l.attrs["id"] \notin DOMAIN entries)) => m = l
           /\ (m.kind = "atom" /\ HasAttr(l, "id") /\ l.attrs["id"] \in DOMAIN entries) =>
                "digest" \in DOMAIN m.attrs /\ m.attrs["digest"] = entries[l.attrs["id"]]
<1> DEFINE m == Stamped(l, entries)
           d == entries[l.attrs["id"]]
           b == With(l.attrs, "digest", d)
<1>1. CASE l.kind = "atom" /\ HasAttr(l, "id") /\ l.attrs["id"] \in DOMAIN entries
  <2>1. m = AtomTag(b)
    BY <1>1 DEF Stamped
  <2>2. /\ DOMAIN b = DOMAIN l.attrs \cup {"digest"} /\ b["digest"] = d
        /\ \A n \in DOMAIN l.attrs \ {"digest"} : b[n] = l.attrs[n]
    BY DEF With
  <2> HIDE DEF b, d, m
  <2>3. m.kind = "atom" /\ m.attrs = b
    BY <2>1 DEF AtomTag
  <2>4. Kept(b) = Kept(l.attrs)
    <3> DEFINE a == l.attrs
    <3>1. /\ DOMAIN b \ {"slug", "digest"} = DOMAIN a \ {"slug", "digest"}
          /\ \A n \in DOMAIN b \ {"slug", "digest"} : b[n] = a[n]
      BY <2>2
    <3> HIDE DEF a
    <3>2. Kept(b) = Kept(a)
      BY <3>1, KeptSame
    <3> QED
      BY <3>2 DEF a
  <2>5. "id" \in DOMAIN b /\ b["id"] = l.attrs["id"]
    BY <1>1, <2>2 DEF HasAttr
  <2> QED
    BY <1>1, <2>4, <2>5, <2>2, <2>3 DEF IdOf, HasAttr, m, d
<1>2. CASE ~(l.kind = "atom" /\ HasAttr(l, "id") /\ l.attrs["id"] \in DOMAIN entries)
  <2>1. m = l
    BY <1>2 DEF Stamped
  <2> HIDE DEF m
  <2> QED
    BY <1>2, <2>1 DEF m
<1> QED
  BY <1>1, <1>2

\* A review leaves every digest but those it was asked for.
LEMMA ReviewMarks ==
    ASSUME NEW L, IsSeq(L), NEW ids, NEW N, SetAtomDigests(L, ReviewEntries(L, ids)) = Rewritten(N)
    PROVE  Marked(L, N, ids) /\ Marked(N, L, ids)
<1> DEFINE E == ReviewEntries(L, ids)
<1>1. Len(N) = Len(L) /\ \A i \in 1..Len(L) : N[i] = Stamped(L[i], E)
  BY ReviewIs
<1>2. DOMAIN E \subseteq ids
  BY EntriesAsked
<1> HIDE DEF E
<1>3. ASSUME NEW i \in 1..Len(L), L[i].kind = "atom", IdOf(L[i]) \notin ids
      PROVE  N[i] = L[i]
  <2>1. N[i].kind = "atom"
    BY <1>1, <1>3, StampedFacts
  <2>2. HasAttr(L[i], "id") => L[i].attrs["id"] \notin DOMAIN E
    BY <1>2, <1>3 DEF IdOf
  <2> QED
    BY <1>1, <2>1, <2>2, StampedFacts
<1>4. \A i \in 1..Len(L) : N[i].kind = L[i].kind /\ (N[i].kind = "atom" => IdOf(N[i]) = IdOf(L[i]))
  BY <1>1, StampedFacts
<1> QED
  BY <1>1, <1>3, <1>4 DEF Marked

----------------------------------------
(* Texts that differ only in the attributes of their directives *)

Alike(L, N) ==
    /\ Len(N) = Len(L)
    /\ \A i \in 1..Len(L) : /\ N[i].kind = L[i].kind
                            /\ L[i].kind = "atom" => (HasAttr(N[i], "id") <=> HasAttr(L[i], "id"))
                            /\ (L[i].kind \notin {"atom", "open"} \/ InBlock(L[i])) => N[i] = L[i]

\* Lines that are alike are the same kind.
LEMMA AlikeLines ==
    ASSUME NEW L, NEW N, Alike(L, N), NEW i \in 1..Len(L)
    PROVE  /\ IsStructural(N[i]) <=> IsStructural(L[i])
           /\ IsBlank(N[i]) <=> IsBlank(L[i])
           /\ InBlock(N[i]) <=> InBlock(L[i])
           /\ N[i] = Spaces <=> L[i] = Spaces
           /\ \A shape : HasShape(N[i], shape) <=> HasShape(L[i], shape)
<1>1. /\ N[i].kind = L[i].kind
      /\ L[i].kind = "atom" => (HasAttr(N[i], "id") <=> HasAttr(L[i], "id"))
      /\ L[i].kind \notin {"atom", "open"} => N[i] = L[i]
  BY DEF Alike
<1>2. IsStructural(N[i]) <=> IsStructural(L[i])
  BY <1>1 DEF IsStructural, LooksLikeDirectiveLine
<1>3. IsBlank(N[i]) <=> IsBlank(L[i])
  BY <1>1 DEF IsBlank
<1>4. Spaces.kind = "spaces"
  BY DEF Spaces
<1>5. N[i] = Spaces <=> L[i] = Spaces
  BY <1>1, <1>4
<1>6. \A shape : HasShape(N[i], shape) <=> HasShape(L[i], shape)
  BY <1>1 DEF HasShape
<1> QED
  BY <1>2, <1>3, <1>5, <1>6 DEF InBlock

\* Texts that are alike have the same blocks and headings.
LEMMA AlikeBlocks ==
    ASSUME NEW L, NEW N, IsSeq(L), IsSeq(N), Alike(L, N)
    PROVE  /\ BlockStarts(N) = BlockStarts(L) /\ Loose(N) = Loose(L)
           /\ \A i \in 1..Len(L) : /\ BlockEnd(N, i) = BlockEnd(L, i)
                                   /\ Heading(N, i) = Heading(L, i)
                                   /\ RunOf(N, i) = RunOf(L, i)
                                   /\ BlocksInRun(N, i) = BlocksInRun(L, i)
                                   /\ IsExplicit(N, i) <=> IsExplicit(L, i)
<1>1. /\ DOMAIN L = 1..Len(L) /\ DOMAIN N = 1..Len(L) /\ Len(N) = Len(L) /\ Len(L) \in Nat
  BY SeqDomain DEF Alike
<1>2. \A i \in 1..Len(L) : /\ IsStructural(N[i]) <=> IsStructural(L[i])
                           /\ InBlock(N[i]) <=> InBlock(L[i])
                           /\ N[i].kind = L[i].kind
  BY AlikeLines DEF Alike
<1>3. BlockStarts(N) = BlockStarts(L)
  <2>1. \A i \in 1..Len(L) : (i = 1 \/ ~InBlock(N[i - 1])) <=> (i = 1 \/ ~InBlock(L[i - 1]))
    <3> SUFFICES ASSUME NEW i \in 1..Len(L), i # 1
                 PROVE InBlock(N[i - 1]) <=> InBlock(L[i - 1])
      OBVIOUS
    <3>1. i - 1 \in 1..Len(L)
      BY <1>1
    <3> QED
      BY <1>2, <3>1
  <2> QED
    BY <1>1, <1>2, <2>1 DEF BlockStarts
<1>4. ASSUME NEW i \in 1..Len(L)
      PROVE  /\ BlockEnd(N, i) = BlockEnd(L, i) /\ Heading(N, i) = Heading(L, i)
             /\ RunOf(N, i) = RunOf(L, i)
  <2>1. {j \in i..Len(N) : \A k \in i..j : InBlock(N[k])} = {j \in i..Len(L) : \A k \in i..j : InBlock(L[k])}
    <3>1. \A j \in i..Len(L) : \A k \in i..j : k \in 1..Len(L)
      BY <1>1
    <3> QED
      BY <1>1, <1>2, <3>1
  <2>2. {j \in 1..(i - 1) : IsStructural(N[j])} = {j \in 1..(i - 1) : IsStructural(L[j])}
    <3>1. \A j \in 1..(i - 1) : j \in 1..Len(L)
      BY <1>1
    <3> QED
      BY <1>2, <3>1
  <2>3. {j \in i..Len(N) : IsStructural(N[j])} = {j \in i..Len(L) : IsStructural(L[j])}
    <3>1. \A j \in i..Len(L) : j \in 1..Len(L)
      BY <1>1
    <3> QED
      BY <1>1, <1>2, <3>1
  <2>4. Heading(N, i) = Heading(L, i)
    BY <2>2 DEF Heading
  <2> QED
    BY <1>1, <2>1, <2>3, <2>4 DEF BlockEnd, RunOf
<1>5. \A i \in 1..Len(L) : BlocksInRun(N, i) = BlocksInRun(L, i)
  BY <1>3, <1>4 DEF BlocksInRun
<1>6. ASSUME NEW i \in 1..Len(L) PROVE IsExplicit(N, i) <=> IsExplicit(L, i)
  <2>1. Heading(L, i) # 0 => Heading(L, i) \in 1..Len(L)
    BY HeadingFacts
  <2>2. Heading(L, i) > 0 => N[Heading(L, i)].kind = L[Heading(L, i)].kind
    BY <1>2, <2>1
  <2> QED
    BY <1>4, <1>5, <2>2 DEF IsExplicit
<1>7. Loose(N) = Loose(L)
  <2>1. \A i \in BlockStarts(L) : i \in 1..Len(L)
    BY BlockStartsFacts
  <2> QED
    BY <1>3, <1>6, <2>1 DEF Loose
<1> QED
  BY <1>3, <1>4, <1>5, <1>6, <1>7

\* parseAtoms: where a block ends.
LEMMA BlockEndFacts ==
    ASSUME NEW L, IsSeq(L), NEW i \in 1..Len(L), InBlock(L[i])
    PROVE  /\ BlockEnd(L, i) \in i..Len(L)
           /\ \A k \in i..BlockEnd(L, i) : InBlock(L[k])
           /\ BlockEnd(L, i) < Len(L) => ~InBlock(L[BlockEnd(L, i) + 1])
           /\ \A j \in i..Len(L) : (\A k \in i..j : InBlock(L[k])) => j <= BlockEnd(L, i)
<1> DEFINE S == {j \in i..Len(L) : \A k \in i..j : InBlock(L[k])}
           e == BlockEnd(L, i)
<1>1. Len(L) \in Nat /\ e = Max(S)
  BY SeqDomain DEF BlockEnd
<1>2. i \in S
  BY <1>1
<1>3. S \in SUBSET Nat /\ S # {} /\ \A n \in S : n <= Len(L)
  BY <1>1, <1>2
<1>4. e \in S /\ \A n \in S : n <= e
  <2> HIDE DEF S, e
  <2> QED
    BY <1>1, <1>3, MaxFacts
<1>5. e \in i..Len(L) /\ \A k \in i..e : InBlock(L[k])
  BY <1>4
<1>6. \A j \in i..Len(L) : (\A k \in i..j : InBlock(L[k])) => j <= e
  BY <1>4
<1> HIDE DEF S, e
<1>7. ASSUME e < Len(L), InBlock(L[e + 1]) PROVE FALSE
  <2>1. e + 1 \in i..Len(L) /\ \A k \in i..(e + 1) : k \in i..e \/ k = e + 1
    BY <1>1, <1>5, <1>7
  <2>2. \A k \in i..(e + 1) : InBlock(L[k])
    BY <1>5, <1>7, <2>1
  <2>3. e + 1 <= e
    BY <1>6, <2>1, <2>2
  <2> QED
    BY <1>1, <1>5, <2>3
<1> QED
  BY <1>5, <1>6, <1>7 DEF e

\* Texts that are alike have cards of the same text.
LEMMA AlikeCards ==
    ASSUME NEW L, NEW N, IsSeq(L), IsSeq(N), Alike(L, N), NEW i \in BlockStarts(L)
    PROVE  /\ SubSeq(N, i, BlockEnd(N, i)) = SubSeq(L, i, BlockEnd(L, i))
           /\ DigestCheckable(N, i) <=> DigestCheckable(L, i)
<1>1. i \in 1..Len(L) /\ InBlock(L[i]) /\ Len(L) \in Nat /\ Len(N) = Len(L)
  BY BlockStartsFacts, SeqDomain DEF Alike
<1>2. /\ BlockStarts(N) = BlockStarts(L) /\ BlockEnd(N, i) = BlockEnd(L, i)
      /\ RunOf(N, i) = RunOf(L, i) /\ BlocksInRun(N, i) = BlocksInRun(L, i)
  BY <1>1, AlikeBlocks
<1> DEFINE e == BlockEnd(L, i)
<1>3. e \in i..Len(L) /\ \A k \in i..e : InBlock(L[k])
  BY <1>1, BlockEndFacts
<1>4. SubSeq(N, i, e) = SubSeq(L, i, e)
  <2> HIDE DEF e
  <2>1. i \in Int /\ e \in Int /\ 1 <= i /\ e <= Len(L) /\ e <= Len(N) /\ i <= e
    BY <1>1, <1>3
  <2>2. /\ IsSeq(SubSeq(L, i, e)) /\ Len(SubSeq(L, i, e)) = e - i + 1
        /\ \A k \in 1..(e - i + 1) : SubSeq(L, i, e)[k] = L[i + k - 1]
    BY <2>1, Cutting
  <2>3. /\ IsSeq(SubSeq(N, i, e)) /\ Len(SubSeq(N, i, e)) = e - i + 1
        /\ \A k \in 1..(e - i + 1) : SubSeq(N, i, e)[k] = N[i + k - 1]
    BY <2>1, Cutting
  <2>4. \A k \in 1..(e - i + 1) : N[i + k - 1] = L[i + k - 1]
    <3> SUFFICES ASSUME NEW k \in 1..(e - i + 1) PROVE N[i + k - 1] = L[i + k - 1]
      OBVIOUS
    <3>1. i + k - 1 \in i..e /\ i + k - 1 \in 1..Len(L)
      BY <1>1, <2>1
    <3> QED
      BY <1>3, <3>1 DEF Alike
  <2> QED
    BY <2>2, <2>3, <2>4, SameSeq
<1>5. /\ \A k \in 1..Len(L) : N[k] = Spaces <=> L[k] = Spaces
      /\ \A k \in 1..Len(L) : \A shape : HasShape(N[k], shape) <=> HasShape(L[k], shape)
  BY AlikeLines
<1> DEFINE R == RunOf(L, i)
           B == BlocksInRun(L, i)
           before == LastOf({b \in B : b < i})
           after == {b \in B : b > i}
<1>6. \A k \in R : k \in 1..Len(L)
  <2> DEFINE next == {j \in i..Len(L) : IsStructural(L[j])}
             h == Heading(L, i)
             last == IF next = {} THEN Len(L) ELSE Min(next) - 1
  <2>1. R = (h + 1)..last
    BY DEF RunOf
  <2>2. h \in 0..(i - 1)
    BY <1>1, HeadingFacts
  <2>3. next \in SUBSET Nat /\ \A j \in next : j <= Len(L)
    BY <1>1
  <2>4. last \in Int /\ last <= Len(L)
    <3>1. next # {} => Min(next) \in next
      <4> HIDE DEF next
      <4> QED
        BY <2>3, MinFacts
    <3>2. next # {} => Min(next) \in Nat /\ Min(next) <= Len(L)
      BY <2>3, <3>1
    <3> HIDE DEF next
    <3> QED
      BY <1>1, <3>2
  <2> HIDE DEF last, h, R
  <2> QED
    BY <1>1, <2>1, <2>2, <2>4
<1>7. B \in SUBSET (1..Len(L))
  BY BlockStartsFacts DEF BlocksInRun
<1>8. /\ before > 0 => before \in 1..Len(L)
      /\ after # {} => Min(after) \in 1..Len(L)
  <2>1. {b \in B : b < i} \in SUBSET (Nat \ {0}) /\ \A n \in {b \in B : b < i} : n <= Len(L)
    BY <1>7
  <2>2. before = 0 \/ before \in {b \in B : b < i}
    BY <1>1, <2>1, LastOfFacts
  <2>3. after \in SUBSET Nat
    BY <1>7
  <2>4. after # {} => Min(after) \in after
    <3> HIDE DEF after
    <3> QED
      BY <2>3, MinFacts
  <2> QED
    BY <1>7, <2>2, <2>4
<1>9. \A k \in i..e : k \in 1..Len(L)
  BY <1>1, <1>3
<1>10. /\ DigestCheckable(N, i) <=>
            (/\ \A k \in R : N[k] # Spaces
             /\ \A k \in i..e : ~HasShape(N[k], "fence")
             /\ before > 0 => ~\E shape \in {"list", "indent"} : HasShape(N[before], shape) /\ HasShape(N[i], shape)
             /\ after # {} => /\ ~HasShape(N[Min(after)], "fence")
                              /\ ~\E shape \in {"list", "indent"} : HasShape(N[i], shape) /\ HasShape(N[Min(after)], shape))
  BY <1>2 DEF DigestCheckable
<1>11. /\ DigestCheckable(L, i) <=>
            (/\ \A k \in R : L[k] # Spaces
             /\ \A k \in i..e : ~HasShape(L[k], "fence")
             /\ before > 0 => ~\E shape \in {"list", "indent"} : HasShape(L[before], shape) /\ HasShape(L[i], shape)
             /\ after # {} => /\ ~HasShape(L[Min(after)], "fence")
                              /\ ~\E shape \in {"list", "indent"} : HasShape(L[i], shape) /\ HasShape(L[Min(after)], shape))
  BY DEF DigestCheckable
<1> HIDE DEF R, B, before, after, e
<1>12. /\ (\A k \in R : N[k] # Spaces) <=> (\A k \in R : L[k] # Spaces)
       /\ (\A k \in i..e : ~HasShape(N[k], "fence")) <=> (\A k \in i..e : ~HasShape(L[k], "fence"))
  BY <1>5, <1>6, <1>9
<1>13. before > 0 => \A shape : /\ HasShape(N[before], shape) <=> HasShape(L[before], shape)
                                /\ HasShape(N[i], shape) <=> HasShape(L[i], shape)
  BY <1>1, <1>5, <1>8
<1>14. after # {} => \A shape : /\ HasShape(N[Min(after)], shape) <=> HasShape(L[Min(after)], shape)
                                /\ HasShape(N[i], shape) <=> HasShape(L[i], shape)
  BY <1>1, <1>5, <1>8
<1> QED
  BY <1>2, <1>4, <1>10, <1>11, <1>12, <1>13, <1>14 DEF e

\* A review gives a text that is alike.
LEMMA ReviewAlike ==
    ASSUME NEW L, IsSeq(L), NEW entries, NEW N, SetAtomDigests(L, entries) = Rewritten(N)
    PROVE  Alike(L, N)
<1>1. Len(N) = Len(L) /\ \A i \in 1..Len(L) : N[i] = Stamped(L[i], entries)
  BY ReviewIs
<1>2. ASSUME NEW i \in 1..Len(L)
      PROVE  /\ N[i].kind = L[i].kind
             /\ L[i].kind = "atom" => (HasAttr(N[i], "id") <=> HasAttr(L[i], "id"))
             /\ (L[i].kind \notin {"atom", "open"} \/ InBlock(L[i])) => N[i] = L[i]
  <2>1. N[i] = Stamped(L[i], entries)
    BY <1>1
  <2>2. /\ N[i].kind = L[i].kind /\ (N[i].kind # "atom" => N[i] = L[i])
        /\ N[i].kind = "atom" => (HasAttr(N[i], "id") <=> HasAttr(L[i], "id"))
    BY <2>1, StampedFacts
  <2>3. ASSUME InBlock(L[i]), L[i].kind = "atom" PROVE N[i] = L[i]
    <3>1. ~HasAttr(L[i], "id")
      BY <2>3 DEF InBlock, IsStructural, LooksLikeDirectiveLine
    <3> QED
      BY <2>1, <3>1 DEF Stamped
  <2> QED
    BY <2>2, <2>3
<1> QED
  BY <1>1, <1>2 DEF Alike

\* The run of a block has one first block: blocks that one directive names are the same.
LEMMA RunsFirst ==
    ASSUME NEW L, IsSeq(L), NEW i \in BlockStarts(L), NEW j \in BlockStarts(L),
           IsExplicit(L, i), IsExplicit(L, j), Heading(L, i) = Heading(L, j)
    PROVE  i = j
<1>1. i \in 1..Len(L) /\ j \in 1..Len(L) /\ Len(L) \in Nat /\ InBlock(L[i]) /\ InBlock(L[j])
  BY BlockStartsFacts, SeqDomain
<1>2. ASSUME NEW x \in BlockStarts(L), NEW y \in BlockStarts(L), IsExplicit(L, x), Heading(L, x) = Heading(L, y)
      PROVE  x <= y
  <2>1. x \in 1..Len(L) /\ y \in 1..Len(L) /\ InBlock(L[x]) /\ InBlock(L[y])
    BY BlockStartsFacts
  <2> DEFINE h == Heading(L, x)
             next == {k \in x..Len(L) : IsStructural(L[k])}
             last == IF next = {} THEN Len(L) ELSE Min(next) - 1
             B == BlocksInRun(L, x)
  <2>2. SUFFICES ASSUME y < x PROVE FALSE
    BY <2>1
  <2>3. h \in 0..(y - 1) /\ h \in 0..(x - 1)
    BY <1>2, <2>1, HeadingFacts
  <2>4. \A k \in (h + 1)..(x - 1) : ~IsStructural(L[k])
    <3>1. \A k \in 1..(x - 1) : IsStructural(L[k]) => k <= h
      BY <2>1, HeadingFacts
    <3> HIDE DEF h
    <3> QED
      BY <2>1, <2>3, <3>1
  <2>5. x - 1 <= last /\ last \in Int
    <3>1. next \in SUBSET Nat
      <4>1. \A k \in x..Len(L) : k \in Nat
        BY <1>1, <2>1
      <4> QED
        BY <4>1
    <3>2. next # {} => Min(next) \in next
      <4> HIDE DEF next
      <4> QED
        BY <3>1, MinFacts
    <3>3. next # {} => Min(next) \in Nat /\ x <= Min(next)
      BY <2>1, <3>2
    <3> HIDE DEF next
    <3> QED
      BY <1>1, <2>1, <3>3
  <2>6. B = BlockStarts(L) \cap ((h + 1)..last)
    BY DEF BlocksInRun, RunOf
  <2> HIDE DEF h, last
  <2>7. y \in B
    BY <2>1, <2>2, <2>3, <2>5, <2>6
  <2>8. x = Min(B)
    BY <1>2 DEF IsExplicit
  <2>9. B \in SUBSET Nat
    BY BlockStartsFacts DEF BlocksInRun
  <2> HIDE DEF B
  <2>10. x <= y
    BY <2>7, <2>8, <2>9, MinFacts
  <2> QED
    BY <2>1, <2>2, <2>10
<1>3. i <= j /\ j <= i
  BY <1>2
<1> QED
  BY <1>1, <1>3

\* Where no id is there twice, an atom has one card.
LEMMA OneCard ==
    ASSUME NEW L, IsSeq(L), UniqueIds(L), NEW id,
           NEW m \in 1..Len(ParseAtoms(L)), NEW n \in 1..Len(ParseAtoms(L)),
           ParseAtoms(L)[m].id = <<"atom", id>>, ParseAtoms(L)[n].id = <<"atom", id>>
    PROVE  m = n
<1> DEFINE P == ParseAtoms(L)
           A == Ascending(BlockStarts(L))
<1>1. /\ Len(P) \in Nat
      /\ \A k \in 1..Len(P) : A[k] \in BlockStarts(L) /\ P[k] = CardAt(L, Loose(L), A[k])
      /\ \A k, l \in 1..Len(P) : k < l => A[k] < A[l]
  BY ParseFacts
<1>2. ASSUME NEW k \in 1..Len(P), P[k].id = <<"atom", id>>
      PROVE  /\ IsExplicit(L, A[k]) /\ Heading(L, A[k]) \in Carriers(L)
             /\ HasAttr(L[Heading(L, A[k])], "id") /\ L[Heading(L, A[k])].attrs["id"] = id
  <2> DEFINE i == A[k]
             h == Heading(L, i)
  <2>1. i \in BlockStarts(L) /\ P[k] = CardAt(L, Loose(L), i) /\ i \in 1..Len(L)
    BY <1>1, BlockStartsFacts
  <2>2. P[k].id = IF i \in Loose(L) THEN <<"implicit", Cardinality({j \in Loose(L) : j <= i})>>
                  ELSE <<"atom", L[h].attrs["id"]>>
    BY <2>1 DEF CardAt
  <2>3. i \notin Loose(L) /\ L[h].attrs["id"] = id
    <3>1. P[k].id[1] = "atom" /\ P[k].id[2] = id
      BY <1>2
    <3> HIDE DEF i, h, P
    <3> QED
      BY <2>2, <3>1
  <2>4. IsExplicit(L, i)
    BY <2>1, <2>3 DEF Loose
  <2>5. h > 0 /\ L[h].kind = "atom"
    BY <2>4 DEF IsExplicit
  <2>6. h \in 1..Len(L) /\ IsStructural(L[h])
    <3>1. h \in 0..(i - 1) /\ (h # 0 => IsStructural(L[h]) /\ h \in 1..Len(L))
      BY <2>1, HeadingFacts
    <3> HIDE DEF h, i
    <3> QED
      BY <2>1, <2>5, <3>1
  <2>7. HasAttr(L[h], "id")
    BY <2>5, <2>6 DEF IsStructural
  <2> QED
    BY <2>3, <2>4, <2>5, <2>6, <2>7, SeqDomain DEF Carriers
<1> DEFINE x == A[m]
           y == A[n]
<1>3. /\ x \in BlockStarts(L) /\ y \in BlockStarts(L) /\ IsExplicit(L, x) /\ IsExplicit(L, y)
      /\ Heading(L, x) = Heading(L, y)
  BY <1>1, <1>2 DEF UniqueIds
<1>4. x = y
  <2> HIDE DEF x, y
  <2> QED
    BY <1>3, RunsFirst
<1>5. x \in Nat
  BY <1>1, BlockStartsFacts
<1>6. ~(m < n) /\ ~(n < m)
  BY <1>1, <1>4, <1>5
<1> QED
  BY <1>1, <1>6

\* After a review the cards it was asked for are fresh, where a digest can be
\* checked.
LEMMA ReviewFreshens ==
    ASSUME NEW L, IsSeq(L), UniqueIds(L), NEW ids, NEW N, IsSeq(N),
           SetAtomDigests(L, ReviewEntries(L, ids)) = Rewritten(N),
           NEW a \in Range(ParseAtoms(N)), ~IsImplicit(a), a.id[2] \in ids, a.checkable
    PROVE  DigestState(a) = "fresh"
<1> DEFINE E == ReviewEntries(L, ids)
           P == ParseAtoms(L)
           A == Ascending(BlockStarts(L))
<1>1. Len(N) = Len(L) /\ \A i \in 1..Len(L) : N[i] = Stamped(L[i], E)
  BY ReviewIs
<1>2. Alike(L, N)
  BY ReviewAlike
<1>3. PICK i \in BlockStarts(N) : \E h \in 1..Len(N) :
             /\ h = Heading(N, i) /\ IsExplicit(N, i)
             /\ N[h].kind = "atom" /\ HasAttr(N[h], "id")
             /\ a = CardAt(N, Loose(N), i)
             /\ a.attrs = N[h].attrs /\ a.id[2] = N[h].attrs["id"]
  BY ExplicitCard
<1>4. PICK h \in 1..Len(N) :
             /\ h = Heading(N, i) /\ IsExplicit(N, i)
             /\ N[h].kind = "atom" /\ HasAttr(N[h], "id")
             /\ a = CardAt(N, Loose(N), i)
             /\ a.attrs = N[h].attrs /\ a.id[2] = N[h].attrs["id"]
  BY <1>3
<1> DEFINE id == a.id[2]
<1>5. i \in 1..Len(L) /\ h \in 1..Len(L) /\ i \in BlockStarts(L)
  <2>1. BlockStarts(N) = BlockStarts(L)
    BY <1>2, AlikeBlocks
  <2> QED
    BY <1>1, <1>3, <2>1, BlockStartsFacts
<1>6. /\ IsExplicit(L, i) /\ Heading(L, i) = h /\ Loose(N) = Loose(L)
  BY <1>2, <1>4, <1>5, AlikeBlocks
<1>7. i \notin Loose(L)
  BY <1>6 DEF Loose
<1>8. N[h] = Stamped(L[h], E) /\ L[h].kind = "atom" /\ HasAttr(L[h], "id") /\ L[h].attrs["id"] = id
  <2>1. N[h] = Stamped(L[h], E)
    BY <1>1, <1>5
  <2>2. L[h].kind = "atom" /\ HasAttr(L[h], "id") /\ N[h].attrs["id"] = L[h].attrs["id"]
    BY <1>4, <2>1, StampedFacts
  <2> QED
    BY <1>4, <2>1, <2>2
<1> DEFINE c == CardAt(L, Loose(L), i)
<1>9. c.id = <<"atom", id>> /\ c.text = a.text /\ c.checkable
  <2>1. /\ c.id = <<"atom", L[h].attrs["id"]>> /\ c.text = SubSeq(L, i, BlockEnd(L, i))
        /\ c.checkable = DigestCheckable(L, i)
    BY <1>6, <1>7 DEF CardAt
  <2>2. a.text = SubSeq(N, i, BlockEnd(N, i)) /\ a.checkable = DigestCheckable(N, i)
    BY <1>4 DEF CardAt
  <2>3. SubSeq(N, i, BlockEnd(N, i)) = SubSeq(L, i, BlockEnd(L, i)) /\ (DigestCheckable(N, i) <=> DigestCheckable(L, i))
    BY <1>2, <1>5, AlikeCards
  <2>4. DigestCheckable(N, i)
    BY <2>2
  <2>5. DigestCheckable(L, i)
    BY <2>3, <2>4
  <2>6. DigestCheckable(L, i) \in BOOLEAN
    BY DEF DigestCheckable
  <2> QED
    BY <1>8, <2>1, <2>2, <2>3, <2>5
<1>10. /\ IsSeq(P) /\ Len(P) \in Nat /\ DOMAIN P = 1..Len(P)
       /\ \E n \in 1..Len(P) : A[n] = i /\ P[n] = c
  <2>1. /\ IsSeq(P) /\ Len(P) \in Nat /\ DOMAIN P = 1..Len(P)
        /\ \A n \in 1..Len(P) : A[n] \in BlockStarts(L) /\ P[n] = CardAt(L, Loose(L), A[n])
        /\ \A k \in BlockStarts(L) : \E n \in 1..Len(P) : A[n] = k
    BY ParseFacts
  <2>2. PICK n \in 1..Len(P) : A[n] = i
    BY <1>5, <2>1
  <2> QED
    BY <2>1, <2>2
<1>11. PICK n \in 1..Len(P) : P[n] = c
  BY <1>10
<1> HIDE DEF c, id
<1> DEFINE S == {k \in DOMAIN P : P[k].id = <<"atom", id>>}
           d == LastOf(S)
<1>12. n \in S /\ \A k \in S : k = n
  <2>1. n \in S
    BY <1>9, <1>10, <1>11
  <2>2. ASSUME NEW k \in S PROVE k = n
    BY <1>9, <1>10, <1>11, OneCard
  <2> QED
    BY <2>1, <2>2
<1>13. d = n
  <2>1. S \in SUBSET (Nat \ {0}) /\ \A k \in S : k <= Len(P)
    BY <1>10
  <2>2. d \in S
    <3> HIDE DEF S
    <3> QED
      BY <1>10, <1>12, <2>1, LastOfFacts
  <2> QED
    BY <1>12, <2>2
<1>14. id \in DOMAIN E /\ E[id] = DigestOfBlock(a.text)
  <2> DEFINE Drawn(x) == LastOf({k \in DOMAIN P : P[k].id = <<"atom", x>>})
             granted == {x \in ids : Drawn(x) # 0 /\ P[Drawn(x)].checkable}
  <2>1. E = [x \in granted |-> DigestOfBlock(P[Drawn(x)].text)]
    BY DEF ReviewEntries, EntriesOf
  <2>2. Drawn(id) = n
    BY <1>13
  <2>3. id \in ids
    BY DEF id
  <2>4. P[n].checkable /\ P[n].text = a.text /\ n # 0
    BY <1>9, <1>10, <1>11
  <2> HIDE DEF P, E
  <2>5. id \in granted
    BY <2>2, <2>3, <2>4
  <2> HIDE DEF granted
  <2>6. DOMAIN E = granted /\ E[id] = DigestOfBlock(P[Drawn(id)].text)
    BY <2>1, <2>5
  <2> QED
    BY <2>2, <2>4, <2>5, <2>6
<1>15. "digest" \in DOMAIN a.attrs /\ a.attrs["digest"] = DigestOfBlock(a.text)
  <2>1. N[h].kind = "atom" /\ L[h].attrs["id"] \in DOMAIN E
    BY <1>4, <1>8, <1>14
  <2>2. "digest" \in DOMAIN N[h].attrs /\ N[h].attrs["digest"] = E[L[h].attrs["id"]]
    BY <1>8, <2>1, StampedFacts
  <2> QED
    BY <1>4, <1>8, <1>14, <2>2
<1> QED
  BY <1>15 DEF DigestState

\* Whatever an edit is, it leaves the digests it was not asked for.
LEMMA MadeMarks ==
    ASSUME NEW r, NEW L, NEW N, IsSeq(L), IsSeq(N), Paired(L), UniqueIds(L), Made(r, L, N), NEW but,
           r.op = "review" => but = r.ids, r.op = "attrs" => but = {r.id}
    PROVE  Marked(L, N, but) /\ Marked(N, L, but)
<1>1. CASE r.op = "reorder" /\ r.place # "start" /\ Makes(ReorderUnit(L, r.moved, r.target, r.place), N)
  BY <1>1, ReorderMarks DEF Makes
<1>2. CASE r.op = "group" /\ \E given : Makes(InsertGroupMarkers(L, r.keys, r.id, given), N)
  BY <1>2, GroupMarks DEF Makes
<1>3. CASE r.op = "ungroup" /\ IsGroupKey(r.key) /\ ~GroupFault(L, r.key) /\ Makes(RemoveGroupMarkers(L, r.key), N)
  BY <1>3, UngroupMarks DEF Makes
<1>4. CASE r.op = "name" /\ \E id, given : \/ Makes(SetAtomSlug(L, id, given), N)
                                           \/ Makes(SetGroupSlug(L, id, given), N)
  BY <1>4, NameMarks DEF Makes
<1>5. CASE r.op = "attrs" /\ \E sent : Makes(SaveAttrs(L, r.id, sent), N)
  BY <1>5, AttrsMarks DEF Makes
<1>6. CASE r.op = "block" /\ IsSeq(r.text) /\ Makes(ReplaceAtomBlock(L, r.id, r.text), N)
  BY <1>6, BlockMarks DEF Makes
<1>7. CASE r.op = "review" /\ Makes(SetAtomDigests(L, ReviewEntries(L, r.ids)), N)
  BY <1>7, ReviewMarks DEF Makes
<1> QED
  BY <1>1, <1>2, <1>3, <1>4, <1>5, <1>6, <1>7 DEF Made

\* The same of a step that lands an edit.
LEMMA FreshenStep == ViewInv /\ [ViewNext]_viewVars =>
         \A v \in Views : Landed(v) =>
         LET asked == CASE Asked(v).op = "review" -> Asked(v).ids
                        [] Asked(v).op = "attrs" -> {Asked(v).id}
                        [] OTHER -> {}
         IN /\ Digests(buffer', asked) = Digests(buffer, asked)
            /\ Asked(v).op = "review" =>
                 \A a \in Range(ParseAtoms(buffer')) :
                   (~IsImplicit(a) /\ a.id[2] \in asked /\ a.checkable) => DigestState(a) = "fresh"
<1> SUFFICES ASSUME ViewInv, [ViewNext]_viewVars, NEW v \in Views, Landed(v)
    PROVE LET asked == CASE Asked(v).op = "review" -> Asked(v).ids
                        [] Asked(v).op = "attrs" -> {Asked(v).id}
                        [] OTHER -> {}
         IN /\ Digests(buffer', asked) = Digests(buffer, asked)
            /\ Asked(v).op = "review" =>
                 \A a \in Range(ParseAtoms(buffer')) :
                   (~IsImplicit(a) /\ a.id[2] \in asked /\ a.checkable) => DigestState(a) = "fresh"
  OBVIOUS
<1> DEFINE r == Asked(v)
           asked == CASE r.op = "review" -> r.ids
                      [] r.op = "attrs" -> {r.id}
                      [] OTHER -> {}
<1>1. /\ IsSeq(buffer) /\ IsSeq(buffer') /\ Paired(buffer) /\ UniqueIds(buffer) /\ Made(r, buffer, buffer')
  BY LandedMakes
<1>2. (r.op = "review" => asked = r.ids) /\ (r.op = "attrs" => asked = {r.id})
  BY Zenon
<1> HIDE DEF asked, r
<1>3. Marked(buffer, buffer', asked) /\ Marked(buffer', buffer, asked)
  BY <1>1, <1>2, MadeMarks
<1>4. Digests(buffer', asked) = Digests(buffer, asked)
  BY <1>1, <1>3, SameDigests
<1>5. ASSUME r.op = "review", NEW a \in Range(ParseAtoms(buffer')), ~IsImplicit(a), a.id[2] \in asked, a.checkable
      PROVE  DigestState(a) = "fresh"
  <2>1. SetAtomDigests(buffer, ReviewEntries(buffer, r.ids)) = Rewritten(buffer')
    BY <1>1, <1>5 DEF Made, Makes
  <2> QED
    BY <1>1, <1>2, <1>5, <2>1, ReviewFreshens
<1> QED
  BY <1>4, <1>5 DEF asked, r

\* For any pages and edits: a review leaves every checkable card it was asked
\* for fresh, and only a review and the attribute editor touch a digest, each
\* its own cards' (refreshDigests, saveAttrs).
THEOREM DigestsFollowReviews == ViewSpec => OnlyReviewFreshens
<1>1. ViewInv /\ [ViewNext]_viewVars =>
        [\A v \in Views : Landed(v) =>
         LET asked == CASE Asked(v).op = "review" -> Asked(v).ids
                        [] Asked(v).op = "attrs" -> {Asked(v).id}
                        [] OTHER -> {}
         IN /\ Digests(buffer', asked) = Digests(buffer, asked)
            /\ Asked(v).op = "review" =>
                 \A a \in Range(ParseAtoms(buffer')) :
                   (~IsImplicit(a) /\ a.id[2] \in asked /\ a.checkable) => DigestState(a) = "fresh"]_viewVars
  BY FreshenStep
<1> QED
  BY <1>1, ViewsAreConsistent, PTL DEF ViewSpec, OnlyReviewFreshens

----------------------------------------
(* A text with its units laid out in a new order *)

\* The units of a text, by number.
First(L, k) == ComputeUnits(L)[k].first
Units(L) == Len(ComputeUnits(L))
\* Where the k-th unit of the new text comes from.
From(L, order, k) == First(L, order[k])

\* What the layout says of the k-th unit.
UnitCopy(L, N, order, g, k) ==
    LET f == From(L, order, k)
        r == Reach(L, order, k)
    IN /\ order[k] \in 1..Units(L)
       /\ f \in UnitStarts(L) /\ f \in 1..Len(L) /\ PreambleEnd(L) < f /\ r \in Nat
       /\ f + r \in 1..Len(L) /\ UnitEnd(L, f) = f + r
       /\ g[k] \in Nat /\ PreambleEnd(L) < g[k] /\ g[k] \in 1..Len(N) /\ g[k] + r \in 1..Len(N)
       /\ \A i \in 0..r : N[g[k] + i] = L[f + i]
       /\ ~IsBlank(L[f]) /\ L[f].kind # "close" /\ ~IsBlank(L[f + r])
       /\ L[f].kind = "open" =>
             /\ 0 < r /\ L[f + r].kind = "close"
             /\ \A i \in 1..(r - 1) : ~IsMarker(L[f + i])
       /\ L[f].kind # "open" => \A i \in 1..r : ~IsBoundary(L[f + i])

\* reorderUnit: a unit's lines in the new text are its lines in the old one.
LEMMA LaidUnit ==
    ASSUME NEW L, IsSeq(L), Paired(L), NEW order, Permutes(L, order),
           NEW N, NEW g, Laid(L, N, order, g), NEW k \in 1..Units(L)
    PROVE  UnitCopy(L, N, order, g, k)
<1> DEFINE U == ComputeUnits(L)
           c == order[k]
           f == From(L, order, k)
           r == Reach(L, order, k)
           y == U[c].last
           h == g[k]
           pe == PreambleEnd(L)
<1>1. c \in 1..Len(U) /\ k \in 1..Len(U)
  BY DEF Permutes, Units
<1>2. /\ Len(L) \in Nat /\ pe \in 0..Len(L) /\ Len(N) \in Nat
  BY SeqDomain, PreambleFacts DEF Laid
<1>3. f = U[c].first /\ r = y - f
  BY DEF From, First, Reach
<1>4. /\ U[c].first \in UnitStarts(L) /\ U[c].first \in 1..Len(L) /\ U[c].last \in U[c].first..Len(L)
      /\ U[c].last \in 1..Len(L) /\ pe < U[c].first /\ U[c].last = UnitEnd(L, U[c].first)
  BY <1>1, UnitLines
<1>5. /\ h \in Nat /\ pe < h /\ h + r <= Len(N) /\ \A i \in 0..r : N[h + i] = L[U[c].first + i]
  BY <1>1 DEF Laid
<1> HIDE DEF U, c, r, y, h, pe
<1>6. f \in UnitStarts(L) /\ f \in 1..Len(L) /\ y \in f..Len(L) /\ y \in 1..Len(L) /\ pe < f /\ y = UnitEnd(L, f)
  BY <1>3, <1>4 DEF y
<1>7. /\ ~IsBlank(L[f]) /\ L[f].kind # "close" /\ ~IsBlank(L[y])
      /\ L[f].kind = "open" =>
                /\ f < y /\ L[y].kind = "close"
                /\ \A j \in (f + 1)..(y - 1) : ~IsMarker(L[j])
      /\ L[f].kind # "open" => \A j \in (f + 1)..y : ~IsBoundary(L[j])
  BY <1>6, UnitFacts
<1> HIDE DEF f
<1>10. f \in Nat /\ y \in Nat /\ f <= y /\ r = y - f /\ h \in Nat /\ pe \in Nat /\ pe < h /\ h + r <= Len(N)
  BY <1>2, <1>3, <1>5, <1>6
<1>8. /\ f + r = y /\ r \in Nat /\ (f < y => 0 < r) /\ h \in 1..Len(N) /\ h + r \in 1..Len(N)
      /\ \A i \in 1..(r - 1) : f + i \in (f + 1)..(y - 1)
      /\ \A i \in 1..r : f + i \in (f + 1)..y
  BY <1>2, <1>10
<1>9. \A i \in 0..r : N[h + i] = L[f + i]
  BY <1>3, <1>5
<1>11. /\ f \in UnitStarts(L) /\ f \in 1..Len(L) /\ pe < f /\ r \in Nat
       /\ f + r \in 1..Len(L) /\ UnitEnd(L, f) = f + r
       /\ h \in Nat /\ pe < h /\ h \in 1..Len(N) /\ h + r \in 1..Len(N)
       /\ ~IsBlank(L[f]) /\ L[f].kind # "close" /\ ~IsBlank(L[f + r])
       /\ L[f].kind = "open" => 0 < r /\ L[f + r].kind = "close"
  BY <1>5, <1>6, <1>7, <1>8
<1>12. L[f].kind = "open" => \A i \in 1..(r - 1) : ~IsMarker(L[f + i])
  BY <1>7, <1>8
<1>13. L[f].kind # "open" => \A i \in 1..r : ~IsBoundary(L[f + i])
  BY <1>7, <1>8
<1>14. c \in 1..Units(L)
  BY <1>1 DEF U, Units
<1> QED
  BY <1>9, <1>11, <1>12, <1>13, <1>14 DEF h, r, f, c, pe, UnitCopy

\* The units are apart, and what is in none of them is blank.
LEMMA LaidApart ==
    ASSUME NEW L, IsSeq(L), Paired(L), NEW order, Permutes(L, order),
           NEW N, NEW g, Laid(L, N, order, g)
    PROVE  /\ IsSeq(N) /\ Len(N) \in Nat /\ PreambleEnd(L) \in 0..Len(N) /\ Units(L) \in Nat
           /\ \A p \in 1..PreambleEnd(L) : N[p] = L[p]
           /\ \A j, k \in 1..Units(L) : j < k => g[j] + Reach(L, order, j) < g[k]
           /\ \A p \in (PreambleEnd(L) + 1)..Len(N) :
                IsBlank(N[p]) \/ \E k \in 1..Units(L) : g[k] <= p /\ p <= g[k] + Reach(L, order, k)
           /\ \A k \in 1..Units(L) :
               \/ k = 1 /\ g[k] = PreambleEnd(L) + 1
               \/ PreambleEnd(L) + 1 < g[k] /\ IsBlank(N[g[k] - 1])
               \/ /\ k > 1 /\ g[k] = g[k - 1] + Reach(L, order, k - 1) + 1
                  /\ From(L, order, k) = From(L, order, k - 1) + Reach(L, order, k - 1) + 1
<1>1. IsSeq(N) /\ Len(N) \in Nat /\ PreambleEnd(L) \in 0..Len(N) /\ Units(L) \in Nat
  <2>1. IsSeq(N) /\ PreambleEnd(L) <= Len(N)
    BY DEF Laid
  <2>2. Len(N) \in Nat /\ PreambleEnd(L) \in 0..Len(L) /\ Len(L) \in Nat
    BY <2>1, SeqDomain, PreambleFacts
  <2>3. Units(L) \in Nat
    BY ComputeFacts DEF Units
  <2> QED
    BY <2>1, <2>2, <2>3
<1>2. ASSUME NEW k \in 1..Units(L)
      PROVE    \/ k = 1 /\ g[k] = PreambleEnd(L) + 1
               \/ PreambleEnd(L) + 1 < g[k] /\ IsBlank(N[g[k] - 1])
               \/ /\ k > 1 /\ g[k] = g[k - 1] + Reach(L, order, k - 1) + 1
                  /\ From(L, order, k) = From(L, order, k - 1) + Reach(L, order, k - 1) + 1
  <2> DEFINE U == ComputeUnits(L)
  <2>1. \/ k = 1 /\ g[k] = PreambleEnd(L) + 1
        \/ PreambleEnd(L) + 1 < g[k] /\ IsBlank(N[g[k] - 1])
        \/ /\ k > 1 /\ g[k] = g[k - 1] + Reach(L, order, k - 1) + 1
           /\ U[order[k]].first = U[order[k - 1]].last + 1
    BY DEF Laid, Units
  <2>2. ASSUME k > 1, U[order[k]].first = U[order[k - 1]].last + 1
        PROVE  From(L, order, k) = From(L, order, k - 1) + Reach(L, order, k - 1) + 1
    <3> DEFINE a == U[order[k - 1]].first
               b == U[order[k - 1]].last
               d == U[order[k]].first
    <3>1. k - 1 \in 1..Units(L)
      BY <1>1, <2>2
    <3>2. order[k - 1] \in 1..Len(U)
      BY <3>1 DEF Permutes, Units
    <3>3. a \in Nat /\ b \in Nat
      BY <3>2, AnyUnit
    <3>4. /\ From(L, order, k) = d /\ From(L, order, k - 1) = a /\ Reach(L, order, k - 1) = b - a /\ d = b + 1
      BY <2>2 DEF From, First, Reach
    <3> HIDE DEF a, b, d
    <3> QED
      BY <3>3, <3>4
  <2> QED
    BY <2>1, <2>2
<1>3. /\ \A p \in 1..PreambleEnd(L) : N[p] = L[p]
      /\ \A j, k \in 1..Units(L) : j < k => g[j] + Reach(L, order, j) < g[k]
      /\ \A p \in (PreambleEnd(L) + 1)..Len(N) :
                IsBlank(N[p]) \/ \E k \in 1..Units(L) : g[k] <= p /\ p <= g[k] + Reach(L, order, k)
  BY DEF Laid, Units
<1> QED
  BY <1>1, <1>2, <1>3

\* A line below the preamble that is not blank is a copy of one of a unit's.
LEMMA CopyOf ==
    ASSUME NEW L, IsSeq(L), Paired(L), NEW order, Permutes(L, order),
           NEW N, NEW g, Laid(L, N, order, g),
           NEW p \in 1..Len(N), PreambleEnd(L) < p, ~IsBlank(N[p])
    PROVE  \E k \in 1..Units(L) : \E i \in 0..Reach(L, order, k) :
             p = g[k] + i /\ N[p] = L[From(L, order, k) + i] /\ From(L, order, k) + i \in 1..Len(L)
<1>1. p \in (PreambleEnd(L) + 1)..Len(N)
  BY LaidApart
<1>2. PICK k \in 1..Units(L) : g[k] <= p /\ p <= g[k] + Reach(L, order, k)
  BY <1>1, LaidApart
<1> DEFINE h == g[k]
           r == Reach(L, order, k)
           f == From(L, order, k)
<1>3. h \in Nat /\ r \in Nat /\ f \in 1..Len(L) /\ f + r \in 1..Len(L) /\ \A i \in 0..r : N[h + i] = L[f + i]
  BY LaidUnit DEF UnitCopy
<1>4. h <= p /\ p <= h + r /\ Len(L) \in Nat
  BY <1>2, SeqDomain
<1> HIDE DEF h, r, f
<1>5. p - h \in 0..r /\ p = h + (p - h) /\ f + (p - h) \in 1..Len(L)
  BY <1>3, <1>4
<1>6. N[p] = L[f + (p - h)]
  BY <1>3, <1>5
<1> QED
  BY <1>5, <1>6 DEF h, r, f

\* computeUnits: the new text has the preamble of the old one.
LEMMA LaidPreamble ==
    ASSUME NEW L, IsSeq(L), Paired(L), NEW order, Permutes(L, order),
           NEW N, NEW g, Laid(L, N, order, g),
           \A i \in 1..Len(L) : L[i].kind = "doc" => i <= PreambleEnd(L)
    PROVE  PreambleEnd(N) = PreambleEnd(L)
<1> DEFINE pe == PreambleEnd(L)
           pn == PreambleEnd(N)
<1>1. /\ IsSeq(N) /\ Len(N) \in Nat /\ pe \in 0..Len(N) /\ \A p \in 1..pe : N[p] = L[p]
  BY LaidApart
<1>2. /\ pe \in 0..Len(L) /\ Len(L) \in Nat
      /\ \A j \in 1..pe : IsBlank(L[j]) \/ L[j].kind = "doc"
      /\ pe # 0 => L[pe].kind = "doc"
  BY PreambleFacts, SeqDomain
<1>3. /\ pn \in 0..Len(N)
      /\ pn # 0 => N[pn].kind = "doc"
      /\ \A i \in 1..Len(N) :
                (N[i].kind = "doc" /\ \A j \in 1..i : IsBlank(N[j]) \/ N[j].kind = "doc") => i <= pn
  BY <1>1, PreambleFacts
<1> HIDE DEF pe, pn
<1>4. pe <= pn
  <2>1. CASE pe = 0
    BY <1>1, <1>3, <2>1
  <2>2. CASE pe # 0
    <3>1. pe \in 1..Len(N) /\ pe \in 1..pe
      BY <1>1, <2>2
    <3>2. N[pe].kind = "doc" /\ \A j \in 1..pe : IsBlank(N[j]) \/ N[j].kind = "doc"
      BY <1>1, <1>2, <2>2, <3>1
    <3> QED
      BY <1>3, <3>1, <3>2
  <2> QED
    BY <2>1, <2>2
<1>5. ASSUME pe < pn PROVE FALSE
  <2>1. pn \in 1..Len(N) /\ N[pn].kind = "doc" /\ ~IsBlank(N[pn])
    BY <1>1, <1>3, <1>5 DEF IsBlank
  <2>2. PICK k \in 1..Units(L) : \E i \in 0..Reach(L, order, k) :
          N[pn] = L[From(L, order, k) + i] /\ From(L, order, k) + i \in 1..Len(L)
    BY <1>5, <2>1, CopyOf DEF pe
  <2>3. PICK i \in 0..Reach(L, order, k) :
          N[pn] = L[From(L, order, k) + i] /\ From(L, order, k) + i \in 1..Len(L)
    BY <2>2
  <2> DEFINE f == From(L, order, k)
  <2>4. f \in 1..Len(L) /\ pe < f /\ Reach(L, order, k) \in Nat
    BY LaidUnit DEF UnitCopy, pe
  <2>5. f + i <= pe
    BY <2>1, <2>3 DEF pe
  <2> HIDE DEF f
  <2> QED
    BY <1>2, <2>4, <2>5
<1>6. pe = pn
  BY <1>1, <1>3, <1>4, <1>5
<1> QED
  BY <1>6 DEF pe, pn

\* Above a unit every group is closed, and within a group there is its opening marker.
LEMMA LaidGroup ==
    ASSUME NEW L, IsSeq(L), Paired(L), NEW order, Permutes(L, order),
           NEW N, NEW g, Laid(L, N, order, g), NEW k \in 1..Units(L)
    PROVE  /\ GroupLine(N, g[k]) = 0
           /\ L[From(L, order, k)].kind = "open" =>
                \A i \in 1..Reach(L, order, k) : GroupLine(N, g[k] + i) # 0
<1> DEFINE h == g[k]
           r == Reach(L, order, k)
           f == From(L, order, k)
<1>1. IsSeq(N) /\ Len(N) \in Nat /\ Len(L) \in Nat /\ PreambleEnd(L) \in 0..Len(N) /\ PreambleEnd(L) \in 0..Len(L)
  BY LaidApart, SeqDomain, PreambleFacts
<1>2. /\ h \in Nat /\ h \in 1..Len(N) /\ h + r \in 1..Len(N) /\ r \in Nat /\ PreambleEnd(L) < h
      /\ \A i \in 0..r : N[h + i] = L[f + i]
      /\ L[f].kind = "open" => \A i \in 1..(r - 1) : ~IsMarker(L[f + i])
      /\ f \in Nat
  BY LaidUnit DEF UnitCopy
<1>3. GroupLine(N, h) = 0
  <2> DEFINE o == GroupLine(N, h)
  <2>1. SUFFICES ASSUME o # 0 PROVE FALSE
    OBVIOUS
  <2>2. /\ o \in 0..(h - 1) /\ N[o].kind = "open" /\ \A j \in (o + 1)..(h - 1) : ~IsMarker(N[j])
    BY <1>1, <1>2, <2>1, GroupLineFacts
  <2> HIDE DEF o
  <2>3. o \in 1..Len(N) /\ ~IsBlank(N[o])
    BY <1>1, <1>2, <2>1, <2>2 DEF IsBlank
  <2>4. PreambleEnd(L) < o
    <3>1. ASSUME o <= PreambleEnd(L) PROVE FALSE
      <4>1. o \in 1..PreambleEnd(L)
        BY <1>1, <2>3, <3>1
      <4>2. N[o] = L[o] /\ (IsBlank(L[o]) \/ L[o].kind = "doc")
        BY <4>1, LaidApart, PreambleFacts
      <4> QED
        BY <2>2, <2>3, <4>2
    <3> QED
      BY <1>1, <2>3, <3>1
  <2>5. PICK j \in 1..Units(L) : \E i \in 0..Reach(L, order, j) :
             o = g[j] + i /\ N[o] = L[From(L, order, j) + i]
    BY <2>3, <2>4, CopyOf
  <2>6. PICK i \in 0..Reach(L, order, j) : o = g[j] + i /\ N[o] = L[From(L, order, j) + i]
    BY <2>5
  <2> DEFINE x == g[j]
             q == Reach(L, order, j)
             e == From(L, order, j)
  <2>7. /\ x \in Nat /\ q \in Nat /\ e \in Nat
        /\ \A d \in 0..q : N[x + d] = L[e + d]
        /\ L[e].kind = "open" => /\ 0 < q /\ L[e + q].kind = "close"
                                 /\ \A d \in 1..(q - 1) : ~IsMarker(L[e + d])
        /\ L[e].kind # "open" => \A d \in 1..q : ~IsBoundary(L[e + d])
    <3>1. UnitCopy(L, N, order, g, j)
      BY LaidUnit
    <3>2. x \in Nat /\ q \in Nat /\ e \in Nat
      BY <3>1 DEF UnitCopy
    <3>3. \A d \in 0..q : N[x + d] = L[e + d]
      BY <3>1 DEF UnitCopy
    <3>4. L[e].kind = "open" => /\ 0 < q /\ L[e + q].kind = "close"
                                /\ \A d \in 1..(q - 1) : ~IsMarker(L[e + d])
      BY <3>1 DEF UnitCopy
    <3>5. L[e].kind # "open" => \A d \in 1..q : ~IsBoundary(L[e + d])
      BY <3>1 DEF UnitCopy
    <3> QED
      BY <3>2, <3>3, <3>4, <3>5
  <2>8. /\ j < k => x + q < h
        /\ k < j => h + r < x
    BY LaidApart
  <2>9. Units(L) \in Nat
    BY LaidApart
  <2>10. o = x + i /\ L[e + i].kind = "open" /\ i \in 0..q /\ (j = k => x = h)
    BY <2>2, <2>6
  <2> HIDE DEF x, q, e
  <2>11. j < k
    BY <1>2, <2>2, <2>7, <2>8, <2>9, <2>10
  <2>12. i = 0
    <3>1. CASE L[e].kind = "open"
      <4>1. i \in 1..(q - 1) => ~IsMarker(L[e + i])
        BY <2>7, <3>1
      <4>2. i # q
        BY <2>7, <2>10, <3>1
      <4> QED
        BY <2>7, <2>10, <4>1, <4>2 DEF IsMarker
    <3>2. CASE L[e].kind # "open"
      <4>1. i \in 1..q => ~IsBoundary(L[e + i])
        BY <2>7, <3>2
      <4> QED
        BY <2>7, <2>10, <4>1 DEF IsBoundary, LooksLikeDirectiveLine
    <3> QED
      BY <3>1, <3>2
  <2>13. L[e].kind = "open"
    BY <2>7, <2>10, <2>12
  <2>14. x + q \in (o + 1)..(h - 1) /\ q \in 0..q
    BY <1>2, <2>7, <2>8, <2>10, <2>11, <2>12, <2>13
  <2>15. N[x + q].kind = "close"
    BY <2>7, <2>13, <2>14
  <2> QED
    BY <2>2, <2>14, <2>15 DEF IsMarker
<1>4. ASSUME L[f].kind = "open", NEW i \in 1..r PROVE GroupLine(N, h + i) # 0
  <2>1. h + i \in (h + 1)..(Len(N) + 1) /\ 0 \in 0..r /\ h + 0 = h /\ f + 0 = f
    BY <1>1, <1>2
  <2>2. N[h].kind = "open"
    BY <1>2, <1>4, <2>1
  <2>3. \A j \in (h + 1)..((h + i) - 1) : N[j].kind # "close"
    <3> SUFFICES ASSUME NEW j \in (h + 1)..((h + i) - 1) PROVE N[j].kind # "close"
      OBVIOUS
    <3>1. j - h \in 1..(r - 1) /\ j - h \in 0..r /\ h + (j - h) = j
      BY <1>2
    <3>2. N[j] = L[f + (j - h)] /\ ~IsMarker(L[f + (j - h)])
      BY <1>2, <1>4, <3>1
    <3> QED
      BY <3>2 DEF IsMarker
  <2> QED
    BY <1>1, <1>2, <2>1, <2>2, <2>3, InsideGroup
<1> QED
  BY <1>3, <1>4

\* computeUnits: a unit of the new text starts where reorderUnit put one.
LEMMA LaidStart ==
    ASSUME NEW L, IsSeq(L), Paired(L), NEW order, Permutes(L, order),
           NEW N, NEW g, Laid(L, N, order, g), PreambleEnd(N) = PreambleEnd(L),
           NEW k \in 1..Units(L)
    PROVE  g[k] \in UnitStarts(N)
<1> DEFINE h == g[k]
           r == Reach(L, order, k)
           f == From(L, order, k)
           pe == PreambleEnd(L)
<1>1. IsSeq(N) /\ Len(N) \in Nat /\ pe \in 0..Len(N)
  BY LaidApart
<1>2. /\ h \in Nat /\ h \in 1..Len(N) /\ r \in Nat /\ pe < h
      /\ \A i \in 0..r : N[h + i] = L[f + i]
      /\ f \in UnitStarts(L) /\ f \in 1..Len(L) /\ ~IsBlank(L[f])
  <2>1. UnitCopy(L, N, order, g, k)
    BY LaidUnit
  <2>2. /\ h \in Nat /\ h \in 1..Len(N) /\ r \in Nat /\ pe < h
        /\ f \in UnitStarts(L) /\ f \in 1..Len(L) /\ ~IsBlank(L[f])
    BY <2>1 DEF UnitCopy
  <2>3. \A i \in 0..r : N[h + i] = L[f + i]
    BY <2>1 DEF UnitCopy
  <2> QED
    BY <2>2, <2>3
<1>3. GroupLine(N, h) = 0
  BY LaidGroup
<1>4. N[h] = L[f]
  <2> HIDE DEF h, r, f
  <2>1. 0 \in 0..r /\ h + 0 = h /\ f + 0 = f
    BY <1>2
  <2> QED
    BY <1>2, <2>1
<1>5. LooksLikeDirectiveLine(N[h]) \/ UnitEndsAbove(N, h)
  <2>1. CASE LooksLikeDirectiveLine(L[f])
    BY <1>4, <2>1
  <2>2. CASE ~LooksLikeDirectiveLine(L[f])
    <3>1. UnitEndsAbove(L, f)
      BY <1>2, <2>2, StartFacts
    <3>2. CASE h = pe + 1
      BY <3>2 DEF UnitEndsAbove
    <3>3. CASE IsBlank(N[h - 1])
      BY <3>3 DEF UnitEndsAbove
    <3>4. CASE /\ k > 1 /\ h = g[k - 1] + Reach(L, order, k - 1) + 1
               /\ f = From(L, order, k - 1) + Reach(L, order, k - 1) + 1
      <4> DEFINE j == k - 1
                 x == g[j]
                 q == Reach(L, order, j)
                 e == From(L, order, j)
      <4>1. j \in 1..Units(L)
        BY <3>4, LaidApart
      <4>2. /\ x \in Nat /\ q \in Nat /\ e \in Nat /\ pe < e /\ pe \in Nat
            /\ \A d \in 0..q : N[x + d] = L[e + d]
            /\ L[e].kind # "close" /\ ~IsBlank(L[e + q])
            /\ L[e].kind # "open" => \A d \in 1..q : ~IsBoundary(L[e + d])
            /\ L[e].kind = "open" => 0 < q
        <5>1. UnitCopy(L, N, order, g, j)
          BY <4>1, LaidUnit
        <5>2. pe \in Nat
          BY <1>1
        <5> HIDE DEF j
        <5> QED
          BY <5>1, <5>2 DEF UnitCopy
      <4>3. L[e].kind = "open" => \A d \in 1..q : GroupLine(N, x + d) # 0
        BY <4>1, LaidGroup
      <4>4. h = x + q + 1 /\ f = e + q + 1
        BY <3>4
      <4> HIDE DEF j, x, q, e, h, f, pe
      <4>5. f # pe + 1 /\ f - 1 = e + q /\ h - 1 = x + q /\ q \in 0..q
        BY <4>2, <4>4
      <4>6. L[e + q].kind = "close"
        BY <3>1, <4>2, <4>5 DEF UnitEndsAbove, pe
      <4>7. L[e].kind = "open"
        <5>1. ASSUME L[e].kind # "open" PROVE FALSE
          <6>1. q = 0 \/ q \in 1..q
            BY <4>2
          <6>2. q # 0
            <7>1. q = 0 => e + q = e
              BY <4>2
            <7> QED
              BY <4>2, <4>6, <7>1
          <6>3. ~IsBoundary(L[e + q])
            BY <4>2, <5>1, <6>1, <6>2
          <6> QED
            BY <4>6, <6>3 DEF IsBoundary, LooksLikeDirectiveLine
        <5> QED
          BY <5>1
      <4>8. GroupLine(N, x + q) # 0 /\ N[x + q].kind = "close"
        <5>1. q \in 1..q
          BY <4>2, <4>7
        <5> QED
          BY <4>2, <4>3, <4>5, <4>6, <4>7, <5>1
      <4>9. x + q \in 1..(Len(N) + 1)
        <5>1. h \in 1..Len(N)
          BY <1>2 DEF h
        <5>2. q # 0
          BY <4>2, <4>7
        <5> QED
          BY <1>1, <4>2, <4>4, <5>1, <5>2
      <4>10. InGroup(N, h - 1) /\ N[h - 1].kind = "close"
        BY <1>1, <4>5, <4>8, <4>9, InGroupIff
      <4> QED
        BY <4>10 DEF UnitEndsAbove, h
    <3> QED
      BY <3>2, <3>3, <3>4, LaidApart
  <2> QED
    BY <2>1, <2>2
<1>6. h \in (PreambleEnd(N) + 1)..Len(N)
  <2> HIDE DEF h, pe
  <2>1. PreambleEnd(N) = pe
    BY DEF pe
  <2> QED
    BY <1>1, <1>2, <2>1
<1> QED
  BY <1>1, <1>2, <1>3, <1>4, <1>5, <1>6, StartFacts

\* computeUnits: and nowhere else.
LEMMA OnlyLaid ==
    ASSUME NEW L, IsSeq(L), Paired(L), NEW order, Permutes(L, order),
           NEW N, NEW g, Laid(L, N, order, g), PreambleEnd(N) = PreambleEnd(L),
           NEW s \in UnitStarts(N)
    PROVE  \E k \in 1..Units(L) : s = g[k]
<1>1. IsSeq(N) /\ Len(N) \in Nat
  BY LaidApart
<1>2. /\ s \in 1..Len(N) /\ PreambleEnd(L) < s /\ ~IsBlank(N[s]) /\ GroupLine(N, s) = 0
      /\ LooksLikeDirectiveLine(N[s]) \/ UnitEndsAbove(N, s)
  <2>1. /\ s \in (PreambleEnd(N) + 1)..Len(N) /\ s \in 1..Len(N) /\ ~IsBlank(N[s]) /\ GroupLine(N, s) = 0
        /\ LooksLikeDirectiveLine(N[s]) \/ UnitEndsAbove(N, s)
    BY <1>1, StartFacts
  <2>2. PreambleEnd(L) \in 0..Len(N)
    BY LaidApart
  <2> QED
    BY <2>1, <2>2
<1>3. PICK k \in 1..Units(L) : \E i \in 0..Reach(L, order, k) :
             s = g[k] + i /\ N[s] = L[From(L, order, k) + i]
  BY <1>2, CopyOf
<1>4. PICK i \in 0..Reach(L, order, k) : s = g[k] + i /\ N[s] = L[From(L, order, k) + i]
  BY <1>3
<1> DEFINE h == g[k]
           r == Reach(L, order, k)
           f == From(L, order, k)
<1>5. /\ h \in Nat /\ r \in Nat /\ f \in Nat /\ f # 0 /\ PreambleEnd(L) < h
      /\ \A d \in 0..r : N[h + d] = L[f + d]
      /\ ~IsBlank(L[f]) /\ L[f].kind # "close"
      /\ L[f].kind # "open" => \A d \in 1..r : ~IsBoundary(L[f + d])
  <2>1. UnitCopy(L, N, order, g, k)
    BY LaidUnit
  <2>2. /\ h \in Nat /\ r \in Nat /\ f \in Nat /\ f # 0 /\ PreambleEnd(L) < h
        /\ ~IsBlank(L[f]) /\ L[f].kind # "close"
    BY <2>1 DEF UnitCopy
  <2>3. \A d \in 0..r : N[h + d] = L[f + d]
    BY <2>1 DEF UnitCopy
  <2>4. L[f].kind # "open" => \A d \in 1..r : ~IsBoundary(L[f + d])
    BY <2>1 DEF UnitCopy
  <2> QED
    BY <2>2, <2>3, <2>4
<1>6. L[f].kind = "open" => \A d \in 1..r : GroupLine(N, h + d) # 0
  BY LaidGroup
<1>7. i \in 0..r /\ s = h + i /\ PreambleEnd(L) \in Nat
  BY <1>4, LaidApart
<1>8. SUFFICES ASSUME i # 0 PROVE FALSE
  <2>1. i = 0 => s = h
    <3> HIDE DEF h
    <3> QED
      BY <1>5, <1>7
  <2> QED
    BY <2>1
<1> HIDE DEF h, r, f
<1>9. i \in 1..r
  BY <1>5, <1>7, <1>8
<1>10. L[f].kind # "open"
  BY <1>2, <1>6, <1>7, <1>9
<1>11. ~IsBoundary(L[f + i]) /\ N[s] = L[f + i]
  BY <1>4, <1>5, <1>9, <1>10 DEF f
<1>12. UnitEndsAbove(N, s)
  BY <1>2, <1>11 DEF IsBoundary
<1>13. s # PreambleEnd(N) + 1
  BY <1>2, <1>5, <1>7, <1>9
<1>14. i - 1 \in 0..r /\ s - 1 = h + (i - 1) /\ (i - 1 = 0 \/ i - 1 \in 1..r)
  BY <1>5, <1>7, <1>9
<1>15. N[s - 1] = L[f + (i - 1)]
  BY <1>5, <1>14
<1>16. ~IsBlank(N[s - 1]) /\ N[s - 1].kind # "close"
  <2>1. CASE i - 1 = 0
    <3>1. f + (i - 1) = f
      BY <1>5, <2>1
    <3> QED
      BY <1>5, <1>15, <3>1
  <2>2. CASE i - 1 \in 1..r
    <3>1. ~IsBoundary(L[f + (i - 1)])
      BY <1>5, <1>10, <2>2
    <3> QED
      BY <1>15, <3>1 DEF IsBoundary, LooksLikeDirectiveLine
  <2> QED
    BY <1>14, <2>1, <2>2
<1> QED
  BY <1>12, <1>13, <1>16 DEF UnitEndsAbove

\* computeUnits: and ends where reorderUnit ended it.
LEMMA LaidEnd ==
    ASSUME NEW L, IsSeq(L), Paired(L), NEW order, Permutes(L, order),
           NEW N, NEW g, Laid(L, N, order, g), NEW k \in 1..Units(L)
    PROVE  UnitEnd(N, g[k]) = g[k] + Reach(L, order, k)
<1> DEFINE h == g[k]
           r == Reach(L, order, k)
           f == From(L, order, k)
<1>1. IsSeq(N) /\ Len(N) \in Nat /\ Units(L) \in Nat /\ PreambleEnd(L) \in Nat
  BY LaidApart
<1>2. /\ h \in Nat /\ h \in 1..Len(N) /\ h + r \in 1..Len(N) /\ r \in Nat /\ f \in Nat
      /\ f \in UnitStarts(L) /\ f + r \in 1..Len(L) /\ UnitEnd(L, f) = f + r /\ PreambleEnd(L) < h
      /\ \A i \in 0..r : N[h + i] = L[f + i]
      /\ ~IsBlank(L[f + r])
      /\ L[f].kind = "open" =>
             /\ 0 < r /\ L[f + r].kind = "close"
             /\ \A i \in 1..(r - 1) : ~IsMarker(L[f + i])
      /\ L[f].kind # "open" => \A i \in 1..r : ~IsBoundary(L[f + i])
  <2>1. UnitCopy(L, N, order, g, k)
    BY LaidUnit
  <2>2. /\ h \in Nat /\ h \in 1..Len(N) /\ h + r \in 1..Len(N) /\ r \in Nat /\ f \in Nat
        /\ f \in UnitStarts(L) /\ f + r \in 1..Len(L) /\ UnitEnd(L, f) = f + r /\ PreambleEnd(L) < h
        /\ ~IsBlank(L[f + r])
    BY <2>1 DEF UnitCopy
  <2>3. \A i \in 0..r : N[h + i] = L[f + i]
    BY <2>1 DEF UnitCopy
  <2>4. L[f].kind = "open" =>
             /\ 0 < r /\ L[f + r].kind = "close"
             /\ \A i \in 1..(r - 1) : ~IsMarker(L[f + i])
    BY <2>1 DEF UnitCopy
  <2>5. L[f].kind # "open" => \A i \in 1..r : ~IsBoundary(L[f + i])
    BY <2>1 DEF UnitCopy
  <2> QED
    BY <2>2, <2>3, <2>4, <2>5
<1>3. /\ \A j \in 1..Units(L) : (j < k => g[j] + Reach(L, order, j) < h) /\ (k < j => h + r < g[j])
      /\ \A p \in (PreambleEnd(L) + 1)..Len(N) :
           IsBlank(N[p]) \/ \E j \in 1..Units(L) : g[j] <= p /\ p <= g[j] + Reach(L, order, j)
  BY LaidApart
<1>4. L[f].kind # "open" => (f + r < Len(L) => IsBoundary(L[f + r + 1]))
  <2>1. L[f].kind # "open" => (UnitEnd(L, f) < Len(L) => IsBoundary(L[UnitEnd(L, f) + 1]))
    BY <1>2, UnitFacts
  <2> HIDE DEF r, f
  <2> QED
    BY <1>2, <2>1
<1>5. r \in 0..r /\ 0 \in 0..r /\ h + 0 = h /\ f + 0 = f
  <2> HIDE DEF r, f, h
  <2> QED
    BY <1>2
<1>6. N[h] = L[f] /\ N[h + r] = L[f + r]
  BY <1>2, <1>5
<1> HIDE DEF r, f, h
<1>7. CASE L[f].kind = "open"
  <2>1. h + r \in (h + 1)..Len(N)
    BY <1>1, <1>2, <1>7
  <2>2. \A j \in (h + 1)..((h + r) - 1) : ~IsMarker(N[j])
    <3> SUFFICES ASSUME NEW j \in (h + 1)..((h + r) - 1) PROVE ~IsMarker(N[j])
      OBVIOUS
    <3>1. j - h \in 1..(r - 1) /\ j - h \in 0..r /\ h + (j - h) = j
      <4>1. h \in Nat /\ r \in Nat
        BY <1>2
      <4> QED
        BY <4>1
    <3>2. N[j] = L[f + (j - h)]
      BY <1>2, <3>1
    <3> QED
      BY <1>2, <1>7, <3>1, <3>2
  <2>3. UnitEnd(N, h) = h + r
    BY <1>1, <1>2, <1>6, <1>7, <2>1, <2>2, GroupEnd
  <2> QED
    BY <2>3 DEF h, r
<1>8. CASE L[f].kind # "open"
  <2> DEFINE e == UnitEnd(N, h)
  <2>1. /\ e \in h..Len(N)
        /\ \A j \in (h + 1)..e : ~IsBoundary(N[j])
        /\ \A j \in h..Len(N) : (\A i \in (h + 1)..j : ~IsBoundary(N[i])) => j <= e
    BY <1>1, <1>2, <1>6, <1>8, PlainEnd
  <2> HIDE DEF e
  <2>2. h + r <= e
    <3>1. \A j \in (h + 1)..(h + r) : ~IsBoundary(N[j])
      <4> SUFFICES ASSUME NEW j \in (h + 1)..(h + r) PROVE ~IsBoundary(N[j])
        OBVIOUS
      <4>1. j - h \in 1..r /\ j - h \in 0..r /\ h + (j - h) = j
        BY <1>2
      <4>2. N[j] = L[f + (j - h)]
        BY <1>2, <4>1
      <4> QED
        BY <1>2, <1>8, <4>1, <4>2
    <3>2. h + r \in h..Len(N)
      BY <1>1, <1>2
    <3> QED
      BY <2>1, <3>1, <3>2
  <2>3. ASSUME h + r < e PROVE FALSE
    <3> DEFINE p == h + r + 1
    <3>1. /\ p \in (PreambleEnd(L) + 1)..Len(N) /\ p \in (h + 1)..e /\ p - 1 = h + r /\ p \in Nat /\ p > h + r
          /\ p \in 1..Len(N)
      BY <1>1, <1>2, <2>1, <2>3
    <3>2. ~IsBoundary(N[p])
      BY <2>1, <3>1
    <3> HIDE DEF p
    <3>3. PICK j \in 1..Units(L) : g[j] <= p /\ p <= g[j] + Reach(L, order, j)
      BY <1>3, <3>1, <3>2 DEF IsBoundary
    <3> DEFINE x == g[j]
               q == Reach(L, order, j)
               d == From(L, order, j)
    <3>4. x \in Nat /\ q \in Nat /\ d \in 1..Len(L) /\ \A i \in 0..q : N[x + i] = L[d + i]
      BY LaidUnit DEF UnitCopy
    <3>5. (j < k => x + q < h) /\ (k < j => h + r < x) /\ x <= p /\ p <= x + q /\ (j = k => x = h /\ q = r)
      BY <1>3, <3>3 DEF h, r
    <3>6. \/ j = 1 /\ x = PreambleEnd(L) + 1
          \/ PreambleEnd(L) + 1 < x /\ IsBlank(N[x - 1])
          \/ /\ j > 1 /\ x = g[j - 1] + Reach(L, order, j - 1) + 1
             /\ d = From(L, order, j - 1) + Reach(L, order, j - 1) + 1
      BY LaidApart
    <3>7. k < j /\ x = p
      <4> HIDE DEF x, q, d
      <4>1. /\ h \in Nat /\ r \in Nat /\ x \in Nat /\ q \in Nat /\ p \in Nat /\ j \in Int /\ k \in Int
            /\ p - 1 = h + r
        BY <1>1, <1>2, <3>1, <3>4
      <4>2. ~(j < k) /\ j # k
        BY <3>5, <4>1
      <4> QED
        BY <3>5, <4>1, <4>2
    <3>8. /\ j > 1 /\ x = g[j - 1] + Reach(L, order, j - 1) + 1
          /\ d = From(L, order, j - 1) + Reach(L, order, j - 1) + 1
      <4>1. j # 1
        BY <1>1, <3>7
      <4>2. ~IsBlank(N[x - 1])
        BY <1>2, <1>6, <3>1, <3>7
      <4> HIDE DEF x, q, d
      <4> QED
        BY <3>6, <4>1, <4>2
    <3> DEFINE i == j - 1
               y == g[i]
               b == Reach(L, order, i)
    <3>9. i \in 1..Units(L)
      BY <1>1, <3>8
    <3>10. y \in Nat /\ b \in Nat
      BY <3>9, LaidUnit DEF UnitCopy
    <3>11. k < i => h + r < y
      BY <1>3, <3>9
    <3>12. x = y + b + 1 /\ k <= i
      BY <1>1, <3>7, <3>8
    <3>13. i = k
      <4> HIDE DEF x, y, b, i
      <4> QED
        BY <1>1, <1>2, <3>1, <3>7, <3>9, <3>10, <3>11, <3>12
    <3>14. d = f + r + 1
      BY <3>8, <3>13 DEF f, r
    <3>15. N[x] = L[d]
      <4> HIDE DEF x, d, q
      <4>1. 0 \in 0..q /\ x + 0 = x /\ d + 0 = d
        BY <3>4
      <4> QED
        BY <3>4, <4>1
    <3>16. f + r < Len(L)
      <4> HIDE DEF d
      <4> QED
        BY <1>2, <3>4, <3>14, SeqDomain
    <3>17. IsBoundary(L[d])
      BY <1>4, <1>8, <3>14, <3>16
    <3> QED
      BY <3>2, <3>7, <3>15, <3>17
  <2>4. e = h + r
    BY <1>1, <1>2, <2>1, <2>2, <2>3
  <2> QED
    BY <2>4 DEF h, r, e
<1> QED
  BY <1>7, <1>8

\* As many as the numbers that count them.
LEMMA CountOf ==
    ASSUME NEW S, NEW n \in Nat, NEW g, \A j \in 1..n : g[j] \in S,
           \A i, j \in 1..n : g[i] = g[j] => i = j,
           \A s \in S : \E j \in 1..n : g[j] = s
    PROVE  IsFiniteSet(S) /\ Cardinality(S) = n
<1> DEFINE f == [j \in 1..n |-> g[j]]
<1>1. f \in [1..n -> S]
  OBVIOUS
<1>2. \A i, j \in 1..n : f[i] = f[j] => i = j
  OBVIOUS
<1>3. \A s \in S : \E j \in 1..n : f[j] = s
  OBVIOUS
<1> HIDE DEF f
<1>4. f \in Bijection(1..n, S)
  BY <1>1, <1>2, <1>3 DEF Bijection, Injection, Surjection, IsInjective
<1>5. IsFiniteSet(1..n) /\ Cardinality(1..n) = n
  BY FS_Interval
<1> QED
  BY <1>4, <1>5, FS_Bijection DEF ExistsBijection

\* An increasing sequence of all the elements is the ascending one.
LEMMA AscendingIs ==
    ASSUME NEW S \in SUBSET (Nat \ {0}), NEW n \in Nat, NEW g, \A j \in 1..n : g[j] \in S,
           \A i, j \in 1..n : i < j => g[i] < g[j],
           \A s \in S : \E j \in 1..n : g[j] = s
    PROVE  IsFiniteSet(S) /\ Cardinality(S) = n /\ \A k \in 1..n : Ascending(S)[k] = g[k]
<1>1. \A j \in 1..n : g[j] \in Nat
  OBVIOUS
<1>2. \A i, j \in 1..n : g[i] = g[j] => i = j
  <2> SUFFICES ASSUME NEW i \in 1..n, NEW j \in 1..n, g[i] = g[j], i # j PROVE FALSE
    OBVIOUS
  <2>1. i < j \/ j < i
    OBVIOUS
  <2> QED
    BY <1>1, <2>1
<1>3. IsFiniteSet(S) /\ Cardinality(S) = n
  BY <1>2, CountOf
<1>4. ASSUME NEW k \in 1..n PROVE Ascending(S)[k] = g[k]
  <2>1. \A j \in 1..k : g[j] \in UpTo(S, g[k])
    <3> SUFFICES ASSUME NEW j \in 1..k PROVE g[j] \in UpTo(S, g[k])
      OBVIOUS
    <3>1. j \in 1..n /\ (j = k \/ j < k)
      OBVIOUS
    <3>2. g[j] <= g[k]
      BY <1>1, <3>1
    <3> QED
      BY <3>1, <3>2 DEF UpTo
  <2>2. \A s \in UpTo(S, g[k]) : \E j \in 1..k : g[j] = s
    <3> SUFFICES ASSUME NEW s \in UpTo(S, g[k]) PROVE \E j \in 1..k : g[j] = s
      OBVIOUS
    <3>1. PICK j \in 1..n : g[j] = s
      BY DEF UpTo
    <3>2. ~(k < j)
      <4>1. g[j] <= g[k]
        BY <3>1 DEF UpTo
      <4> QED
        BY <1>1, <4>1
    <3> QED
      BY <3>1, <3>2
  <2>3. k \in Nat /\ \A i, j \in 1..k : g[i] = g[j] => i = j
    BY <1>2
  <2>4. Cardinality(UpTo(S, g[k])) = k
    <3> DEFINE T == UpTo(S, g[k])
    <3>1. \A j \in 1..k : g[j] \in T
      BY <2>1
    <3>2. \A s \in T : \E j \in 1..k : g[j] = s
      BY <2>2
    <3>3. k \in Nat
      OBVIOUS
    <3>4. \A i, j \in 1..k : g[i] = g[j] => i = j
      BY <2>3
    <3> HIDE DEF T
    <3>5. IsFiniteSet(T) /\ Cardinality(T) = k
      BY <3>1, <3>2, <3>3, <3>4, CountOf
    <3> QED
      BY <3>5 DEF T
  <2>5. PICK m \in 1..n : Ascending(S)[m] = g[k]
    BY <1>3, AscendingFacts
  <2>6. Cardinality(UpTo(S, Ascending(S)[m])) = m
    BY <1>3, AscendingFacts
  <2> QED
    BY <2>4, <2>5, <2>6
<1> QED
  BY <1>3, <1>4

\* No line of a text is laid out twice.
LEMMA SourcesApart ==
    ASSUME NEW L, IsSeq(L), Paired(L), NEW order, Permutes(L, order),
           NEW j \in 1..Units(L), NEW k \in 1..Units(L),
           NEW a \in 0..Reach(L, order, j), NEW b \in 0..Reach(L, order, k),
           From(L, order, j) + a = From(L, order, k) + b
    PROVE  j = k /\ a = b
<1> DEFINE U == ComputeUnits(L)
           c == order[j]
           d == order[k]
<1>1. c \in 1..Len(U) /\ d \in 1..Len(U) /\ (c = d => j = k)
  BY DEF Permutes, Units
<1>2. /\ U[c].first \in Nat /\ U[c].last \in Nat /\ U[d].first \in Nat /\ U[d].last \in Nat
      /\ U[c].first <= U[c].last /\ U[d].first <= U[d].last
      /\ c < d => U[c].last < U[d].first
      /\ d < c => U[d].last < U[c].first
  <2>1. Len(U) \in Nat /\ \A x \in 1..Len(U) : U[x].first \in 1..Len(L) /\ U[x].last \in U[x].first..Len(L)
                       /\ U[x].last \in 1..Len(L)
    BY UnitLines
  <2>2. \A x, y \in 1..Len(U) : x < y => U[x].last < U[y].first
    BY UnitLines
  <2>3. Len(L) \in Nat
    BY SeqDomain
  <2> HIDE DEF U, c, d
  <2>4. U[c].first \in 1..Len(L) /\ U[c].last \in U[c].first..Len(L) /\ U[c].last \in 1..Len(L)
    BY <1>1, <2>1
  <2>5. U[d].first \in 1..Len(L) /\ U[d].last \in U[d].first..Len(L) /\ U[d].last \in 1..Len(L)
    BY <1>1, <2>1
  <2>6. (c < d => U[c].last < U[d].first) /\ (d < c => U[d].last < U[c].first)
    BY <1>1, <2>2
  <2> DEFINE x == U[c].first
             y == U[c].last
             z == U[d].first
             w == U[d].last
  <2>7. x \in Nat /\ y \in Nat /\ z \in Nat /\ w \in Nat /\ x <= y /\ z <= w
    <3>1. x \in 1..Len(L) /\ y \in x..Len(L) /\ y \in 1..Len(L) /\ z \in 1..Len(L) /\ w \in z..Len(L) /\ w \in 1..Len(L)
      BY <2>4, <2>5
    <3> HIDE DEF x, y, z, w
    <3> QED
      BY <2>3, <3>1
  <2> QED
    BY <2>6, <2>7
<1>3. /\ From(L, order, j) = U[c].first /\ Reach(L, order, j) = U[c].last - U[c].first
      /\ From(L, order, k) = U[d].first /\ Reach(L, order, k) = U[d].last - U[d].first
  BY DEF From, First, Reach
<1>4. Len(U) \in Nat
  BY UnitLines
<1> HIDE DEF U, c, d
<1>5. ~(c < d) /\ ~(d < c)
  <2> DEFINE x == U[c].first
             y == U[c].last
             z == U[d].first
             w == U[d].last
  <2>1. x \in Nat /\ y \in Nat /\ z \in Nat /\ w \in Nat /\ (c < d => y < z) /\ (d < c => w < x)
    BY <1>2
  <2>2. a \in 0..(y - x) /\ b \in 0..(w - z) /\ x + a = z + b
    BY <1>3
  <2> HIDE DEF x, y, z, w
  <2> QED
    BY <2>1, <2>2
<1>6. c = d
  BY <1>1, <1>4, <1>5
<1> QED
  BY <1>1, <1>2, <1>3, <1>6

\* The identifiers stay unique.
LEMMA LaidIds ==
    ASSUME NEW L, IsSeq(L), Paired(L), UniqueIds(L), NEW order, Permutes(L, order),
           NEW N, NEW g, Laid(L, N, order, g)
    PROVE  UniqueIds(N)
<1> SUFFICES ASSUME NEW i \in Carriers(N), NEW j \in Carriers(N), i # j,
                    HasAttr(N[i], "id"), HasAttr(N[j], "id"), N[i].attrs["id"] = N[j].attrs["id"]
             PROVE  FALSE
  BY DEF UniqueIds
<1>1. IsSeq(N) /\ DOMAIN N = 1..Len(N) /\ DOMAIN L = 1..Len(L)
  BY SeqDomain DEF Laid
<1>2. \A p \in Carriers(N) : p \in 1..Len(N) /\ PreambleEnd(L) < p /\ ~IsBlank(N[p]) /\ N[p].kind \in {"atom", "open"}
  <2> SUFFICES ASSUME NEW p \in Carriers(N)
               PROVE  p \in 1..Len(N) /\ PreambleEnd(L) < p /\ ~IsBlank(N[p]) /\ N[p].kind \in {"atom", "open"}
    OBVIOUS
  <2>1. p \in 1..Len(N) /\ N[p].kind \in {"atom", "open"}
    BY <1>1 DEF Carriers
  <2>2. ~(p <= PreambleEnd(L))
    <3> SUFFICES ASSUME p <= PreambleEnd(L) PROVE FALSE
      OBVIOUS
    <3>1. p \in 1..PreambleEnd(L)
      BY <2>1, PreambleFacts
    <3>2. N[p] = L[p]
      BY <3>1, LaidApart
    <3>3. IsBlank(L[p]) \/ L[p].kind = "doc"
      BY <3>1, PreambleFacts
    <3> QED
      BY <2>1, <3>2, <3>3 DEF IsBlank
  <2>3. PreambleEnd(L) \in Nat
    BY PreambleFacts
  <2> QED
    BY <2>1, <2>2, <2>3 DEF IsBlank
<1>3. PICK k \in 1..Units(L) : \E a \in 0..Reach(L, order, k) :
        i = g[k] + a /\ N[i] = L[From(L, order, k) + a] /\ From(L, order, k) + a \in 1..Len(L)
  BY <1>2, CopyOf
<1>4. PICK a \in 0..Reach(L, order, k) :
        i = g[k] + a /\ N[i] = L[From(L, order, k) + a] /\ From(L, order, k) + a \in 1..Len(L)
  BY <1>3
<1>5. PICK l \in 1..Units(L) : \E b \in 0..Reach(L, order, l) :
        j = g[l] + b /\ N[j] = L[From(L, order, l) + b] /\ From(L, order, l) + b \in 1..Len(L)
  BY <1>2, CopyOf
<1>6. PICK b \in 0..Reach(L, order, l) :
        j = g[l] + b /\ N[j] = L[From(L, order, l) + b] /\ From(L, order, l) + b \in 1..Len(L)
  BY <1>5
<1>7. From(L, order, k) + a \in Carriers(L) /\ From(L, order, l) + b \in Carriers(L)
  BY <1>1, <1>2, <1>4, <1>6 DEF Carriers
<1>8. From(L, order, k) + a = From(L, order, l) + b
  BY <1>4, <1>6, <1>7 DEF UniqueIds
<1>9. k = l /\ a = b
  BY <1>8, SourcesApart
<1> QED
  BY <1>4, <1>6, <1>9

\* The k-th unit of the new text is the one laid out k-th.
LEMMA LaidUnits ==
    ASSUME NEW L, IsSeq(L), Paired(L), NEW order, Permutes(L, order),
           NEW N, NEW g, Laid(L, N, order, g), PreambleEnd(N) = PreambleEnd(L)
    PROVE  /\ Len(ComputeUnits(N)) = Units(L)
           /\ \A k \in 1..Units(L) : ComputeUnits(N)[k] = UnitAt(N, UnitStarts(N), g[k])
<1>1. IsSeq(N) /\ Units(L) \in Nat
  BY LaidApart
<1>2. UnitStarts(N) \in SUBSET (Nat \ {0})
  BY <1>1, StartFacts
<1>3. \A j \in 1..Units(L) : g[j] \in UnitStarts(N)
  BY LaidStart
<1>4. \A i, j \in 1..Units(L) : i < j => g[i] < g[j]
  <2> SUFFICES ASSUME NEW i \in 1..Units(L), NEW j \in 1..Units(L), i < j PROVE g[i] < g[j]
    OBVIOUS
  <2>1. g[i] + Reach(L, order, i) < g[j]
    BY LaidApart
  <2>2. UnitCopy(L, N, order, g, i) /\ UnitCopy(L, N, order, g, j)
    BY LaidUnit
  <2>3. g[i] \in Nat /\ g[j] \in Nat /\ Reach(L, order, i) \in Nat
    BY <2>2 DEF UnitCopy
  <2> QED
    BY <2>1, <2>3
<1>5. \A s \in UnitStarts(N) : \E j \in 1..Units(L) : g[j] = s
  BY OnlyLaid
<1>6. /\ Cardinality(UnitStarts(N)) = Units(L)
      /\ \A k \in 1..Units(L) : Ascending(UnitStarts(N))[k] = g[k]
  BY <1>1, <1>2, <1>3, <1>4, <1>5, AscendingIs
<1> QED
  BY <1>1, <1>6, ComputeFacts

\* A unit with a name keeps it.
LEMMA LaidKey ==
    ASSUME NEW L, IsSeq(L), Paired(L), UniqueIds(L), NEW order, Permutes(L, order),
           NEW N, NEW g, Laid(L, N, order, g), PreambleEnd(N) = PreambleEnd(L),
           NEW k \in 1..Units(L), Named(ComputeUnits(L)[order[k]].key)
    PROVE  ComputeUnits(N)[k].key = ComputeUnits(L)[order[k]].key
<1> DEFINE f == From(L, order, k)
           u == ComputeUnits(L)[order[k]]
           w == ComputeUnits(N)[k]
<1>1. /\ f \in 1..Len(L) /\ g[k] \in 1..Len(N) /\ g[k] \in Nat /\ N[g[k]] = L[f]
      /\ order[k] \in 1..Units(L)
  <2>1. UnitCopy(L, N, order, g, k)
    BY LaidUnit
  <2>2. Reach(L, order, k) \in Nat /\ f \in 1..Len(L) /\ g[k] \in 1..Len(N) /\ g[k] \in Nat
    BY <2>1 DEF UnitCopy
  <2>3. N[g[k] + 0] = L[f + 0]
    BY <2>1, <2>2 DEF UnitCopy
  <2> QED
    BY <2>1, <2>2, <2>3 DEF UnitCopy
<1>2. w = UnitAt(N, UnitStarts(N), g[k]) /\ u = UnitAt(L, UnitStarts(L), f)
  <2>1. u = UnitAt(L, UnitStarts(L), u.first)
    BY <1>1, ComputeFacts DEF Units
  <2> QED
    BY <2>1, LaidUnits DEF From, First
<1>3. UniqueIds(N) /\ IsSeq(N) /\ DOMAIN N = 1..Len(N) /\ DOMAIN L = 1..Len(L)
  BY LaidIds, LaidApart, SeqDomain
<1>4. UnitStarts(N) \in SUBSET DOMAIN N /\ UnitStarts(L) \in SUBSET DOMAIN L
  BY <1>3, StartFacts
<1>5. w.kind = UnitKind(N[g[k]]) /\ u.kind = UnitKind(L[f])
  BY <1>2 DEF UnitAt
<1> HIDE DEF f, u, w
<1>6. u.key[1] \in {"atom", "group"}
  BY DEF Named, u
<1>7. CASE u.kind = "atom"
  <2>1. u.key = <<"atom", L[f].attrs["id"]>>
    BY <1>2, <1>7, KeyFacts
  <2>2. w.key = <<"atom", N[g[k]].attrs["id"]>>
    BY <1>1, <1>2, <1>5, <1>7, KeyFacts
  <2> QED
    BY <1>1, <2>1, <2>2 DEF u, w
<1>8. CASE u.kind = "implicit"
  <2>1. u.key[1] = "implicit"
    BY <1>2, <1>8, KeyFacts
  <2> QED
    BY <1>6, <2>1
<1>9. CASE u.kind = "group"
  <2>1. L[f].kind = "open"
    BY <1>2, <1>9, KeyFacts
  <2>2. f \in Int /\ g[k] \in Int
    BY <1>1
  <2>3. /\ HasAttr(L[f], "id") => u.key = <<"group", L[f].attrs["id"]>>
        /\ ~HasAttr(L[f], "id") => u.key = <<"line", f>>
    BY <1>1, <1>2, <1>3, <1>4, <2>1, <2>2, GroupKey
  <2> DEFINE h == g[k]
  <2>4. h \in DOMAIN N /\ h \in Int /\ N[h].kind = "open" /\ w = UnitAt(N, UnitStarts(N), h)
    BY <1>1, <1>2, <1>3, <2>1
  <2> HIDE DEF h
  <2>5. HasAttr(N[h], "id") => w.key = <<"group", N[h].attrs["id"]>>
    BY <1>3, <1>4, <2>4, GroupKey
  <2>6. HasAttr(L[f], "id")
    BY <1>6, <2>3
  <2>7. N[h] = L[f]
    BY <1>1 DEF h
  <2>8. u.key = <<"group", L[f].attrs["id"]>> /\ w.key = <<"group", L[f].attrs["id"]>>
    BY <2>3, <2>5, <2>6, <2>7
  <2> QED
    BY <2>8 DEF u, w
<1>10. u.kind \in {"atom", "implicit", "group"}
  BY <1>2, KeyFacts
<1> QED
  BY <1>7, <1>8, <1>9, <1>10

\* Where the unit with a key is in the order of a text.
PlaceOf(N, key) == FirstOf({n \in DOMAIN UnitOrder(N) : UnitOrder(N)[n] = key})

\* The only unit with a key is found where it is.
LEMMA FoundAt ==
    ASSUME NEW N, IsSeq(N), UniqueIds(N), NEW w \in 1..Len(ComputeUnits(N)), NEW key,
           ComputeUnits(N)[w].key = key
    PROVE  /\ DOMAIN UnitOrder(N) = 1..Len(ComputeUnits(N)) /\ UnitOrder(N)[w] = key
           /\ PlaceOf(N, key) = w
<1> DEFINE order == UnitOrder(N)
           S == {n \in DOMAIN order : order[n] = key}
<1>1. /\ DOMAIN order = 1..Len(ComputeUnits(N)) /\ Len(ComputeUnits(N)) \in Nat
      /\ \A n \in 1..Len(ComputeUnits(N)) : order[n] = ComputeUnits(N)[n].key
  <2>1. DOMAIN ComputeUnits(N) = 1..Len(ComputeUnits(N)) /\ Len(ComputeUnits(N)) \in Nat
    BY ComputeFacts
  <2> QED
    BY <2>1 DEF UnitOrder, Keys
<1> HIDE DEF order
<1>2. S = {w}
  <2>1. ASSUME NEW n \in S PROVE n = w
    <3>1. n \in 1..Len(ComputeUnits(N)) /\ ComputeUnits(N)[n].key = ComputeUnits(N)[w].key
      BY <1>1, <2>1
    <3> QED
      BY <3>1, KeysApart
  <2>2. w \in S
    BY <1>1
  <2> QED
    BY <2>1, <2>2
<1>3. S \in SUBSET (Nat \ {0}) /\ w \in S /\ \A y \in S : w <= y
  BY <1>1, <1>2
<1>4. FirstOf(S) = w
  <2> HIDE DEF S
  <2> QED
    BY <1>3, FirstIs
<1> QED
  BY <1>1, <1>4 DEF order, PlaceOf

\* A move among the units puts the moved one next to its target, or last.
LEMMA MovedNextTo ==
    ASSUME NEW n \in Nat, NEW m \in 1..n, NEW q \in 1..n, q # m
    PROVE  /\ LET w == MovedTo(n, m, q) IN
              w \in 1..n /\ w + 1 \in 1..n /\ MovedOrder(n, m, q)[w] = m /\ MovedOrder(n, m, q)[w + 1] = q
           /\ LET w == MovedTo(n, m, q + 1) IN
              w \in 1..n /\ w - 1 \in 1..n /\ MovedOrder(n, m, q + 1)[w] = m /\ MovedOrder(n, m, q + 1)[w - 1] = q
<1>1. q \in 1..(n + 1) /\ q + 1 \in 1..(n + 1)
  OBVIOUS
<1> DEFINE w == MovedTo(n, m, q)
           x == MovedTo(n, m, q + 1)
           order == MovedOrder(n, m, q)
           after == MovedOrder(n, m, q + 1)
<1>2. /\ w \in 1..n /\ order[w] = m
      /\ \A k \in (w + 1)..n : order[k] = IF k - 1 < m THEN k - 1 ELSE k
  BY <1>1, MovedFacts
<1>3. /\ x \in 1..n /\ after[x] = m
      /\ \A k \in 1..(x - 1) : after[k] = IF k < m THEN k ELSE k + 1
  BY <1>1, MovedFacts
<1>4. w = IF m < q THEN q - 1 ELSE q
  <2>1. (IF m < q THEN q - 1 ELSE q) \in Nat
    OBVIOUS
  <2>2. w = IF (IF m < q THEN q - 1 ELSE q) <= n THEN (IF m < q THEN q - 1 ELSE q) ELSE n
    BY <2>1, MinOfTwo DEF MovedTo
  <2> HIDE DEF w
  <2> QED
    BY <2>2
<1>5. x = IF m < q THEN q ELSE q + 1
  <2>1. (IF m < q + 1 THEN (q + 1) - 1 ELSE q + 1) \in Nat
    OBVIOUS
  <2>2. x = IF (IF m < q + 1 THEN (q + 1) - 1 ELSE q + 1) <= n THEN (IF m < q + 1 THEN (q + 1) - 1 ELSE q + 1) ELSE n
    BY <2>1, MinOfTwo DEF MovedTo
  <2> HIDE DEF x
  <2> QED
    BY <2>2
<1> HIDE DEF w, x, order, after
<1>6. w + 1 \in (w + 1)..n /\ w + 1 \in 1..n /\ order[w + 1] = q
  <2>1. w + 1 \in (w + 1)..n /\ w + 1 \in 1..n
    BY <1>2, <1>4
  <2>2. order[w + 1] = IF (w + 1) - 1 < m THEN (w + 1) - 1 ELSE w + 1
    BY <1>2, <2>1
  <2> QED
    BY <1>2, <1>4, <2>1, <2>2
<1>7. x - 1 \in 1..(x - 1) /\ x - 1 \in 1..n /\ after[x - 1] = q
  <2>1. x - 1 \in 1..(x - 1) /\ x - 1 \in 1..n
    BY <1>3, <1>5
  <2>2. after[x - 1] = IF x - 1 < m THEN x - 1 ELSE (x - 1) + 1
    BY <1>3, <2>1
  <2> QED
    BY <1>3, <1>5, <2>1, <2>2
<1> QED
  BY <1>2, <1>3, <1>6, <1>7 DEF w, x, order, after

\* Where the move puts the unit, said of the new text.
Lands(N, moved, target, place) ==
    LET order == UnitOrder(N)
        At(key) == FirstOf({n \in DOMAIN order : order[n] = key})
    IN IF target = None THEN Last(order) = moved
       ELSE Named(target) =>
              At(moved) = At(target) + (IF place = "before" THEN -1 ELSE 1)

\* A move puts a named unit next to the one it was dropped against, or last.
LEMMA ReorderLands ==
    ASSUME NEW L, IsSeq(L), WellPlaced(L), Paired(L), UniqueIds(L), NEW moved, NEW target,
           NEW place, place # "start", target = None \/ place \in {"before", "after"},
           NEW N, ReorderUnit(L, moved, target, place) = Rewritten(N), N # L, Named(moved)
    PROVE  Lands(N, moved, target, place)
<1> DEFINE U == ComputeUnits(L)
           V == ComputeUnits(N)
           n == Len(U)
           m == FindUnit(U, moved)
           t == TargetIndex(U, target, place)
           q == FindUnit(U, target)
           order == MovedOrder(n, m, t)
           w == MovedTo(n, m, t)
<1>1. /\ m \in 1..n /\ t \in 1..(n + 1) /\ moved # target /\ n \in Nat
      /\ target = None \/ q \in 1..n
      /\ Permutes(L, order) /\ \E g : Laid(L, N, order, g)
  <2>1. Len(U) \in Nat
    BY ComputeFacts
  <2> QED
    BY <2>1, ReorderLaid
<1>2. PICK g : Laid(L, N, order, g)
  BY <1>1
<1>3. PreambleEnd(N) = PreambleEnd(L)
  <2>1. \A i \in 1..Len(L) : L[i].kind = "doc" => i <= PreambleEnd(L)
    BY SeqDomain DEF WellPlaced
  <2> HIDE DEF order
  <2> QED
    BY <1>1, <1>2, <2>1, LaidPreamble
<1>4. IsSeq(N) /\ UniqueIds(N) /\ Len(V) = n
  <2> HIDE DEF order
  <2>1. IsSeq(N) /\ UniqueIds(N)
    BY <1>1, <1>2, LaidIds, LaidApart
  <2>2. Len(V) = Units(L)
    BY <1>1, <1>2, <1>3, LaidUnits
  <2> QED
    BY <2>1, <2>2 DEF Units
<1>5. ASSUME NEW k \in 1..n, NEW key, Named(key), U[order[k]].key = key PROVE V[k].key = key
  <2> HIDE DEF order
  <2>1. k \in 1..Units(L)
    BY DEF Units
  <2> QED
    BY <1>1, <1>2, <1>3, <1>5, <2>1, LaidKey
<1>6. U[m].key = moved
  <2>1. IsSeq(U)
    BY ComputeFacts
  <2> QED
    BY <1>1, <2>1, FindUnitFacts
<1>7. w \in 1..n /\ order[w] = m
  <2> HIDE DEF n, m, t
  <2> QED
    BY <1>1, MovedFacts
<1>8. V[w].key = moved
  <2> HIDE DEF order, w, n, U, V, m
  <2> QED
    BY <1>5, <1>6, <1>7
<1>9. DOMAIN UnitOrder(N) = 1..n /\ UnitOrder(N)[w] = moved /\ PlaceOf(N, moved) = w
  <2>1. w \in 1..Len(ComputeUnits(N)) /\ ComputeUnits(N)[w].key = moved
    BY <1>4, <1>7, <1>8
  <2> HIDE DEF w, n
  <2> QED
    BY <1>4, <2>1, FoundAt
<1>10. CASE target = None
  <2>1. t = n + 1
    BY <1>10 DEF TargetIndex, None
  <2>2. w = n
    <3> HIDE DEF n, m, t
    <3>1. (IF m < t THEN t - 1 ELSE t) = n
      BY <1>1, <2>1
    <3>2. w = Min({n, n})
      BY <3>1 DEF MovedTo
    <3>3. Min({n, n}) = n
      BY <1>1, MinOfTwo
    <3> QED
      BY <3>2, <3>3
  <2>3. Len(UnitOrder(N)) = n
    <3> HIDE DEF n
    <3>1. IsSeq(V)
      BY <1>4, ComputeFacts
    <3>2. UnitOrder(N) = [k \in 1..n |-> V[k].key]
      BY <1>4, <3>1, SeqDomain DEF UnitOrder, Keys
    <3> QED
      BY <1>1, <3>2, FunctionSeq
  <2>4. Last(UnitOrder(N)) = moved
    BY <1>9, <2>2, <2>3 DEF Last
  <2> QED
    BY <1>10, <2>4 DEF Lands
<1>11. CASE target # None
  <2> SUFFICES ASSUME Named(target)
               PROVE  PlaceOf(N, moved) = PlaceOf(N, target) + (IF place = "before" THEN -1 ELSE 1)
    BY <1>11 DEF Lands, PlaceOf
  <2>1. U[q].key = target /\ q \in 1..n /\ q # m
    <3>1. IsSeq(U)
      BY ComputeFacts
    <3>2. U[q].key = target /\ q \in 1..n
      BY <1>1, <1>11, <3>1, FindUnitFacts
    <3> QED
      BY <1>1, <1>6, <3>2
  <2>2. t = q + (IF place = "after" THEN 1 ELSE 0)
    BY <1>11 DEF TargetIndex, None
  <2> DEFINE z == IF place = "before" THEN w + 1 ELSE w - 1
  <2>3. z \in 1..n /\ order[z] = q
    <3>1. CASE place = "before"
      <4> HIDE DEF n, m, q, t
      <4>1. t = q
        BY <2>1, <2>2, <3>1
      <4>2. w + 1 \in 1..n /\ order[w + 1] = q
        BY <1>1, <2>1, <4>1, MovedNextTo
      <4> HIDE DEF order
      <4> QED
        BY <3>1, <4>2
    <3>2. CASE place = "after"
      <4> HIDE DEF n, m, q, t
      <4>1. t = q + 1
        BY <2>1, <2>2, <3>2
      <4>2. w - 1 \in 1..n /\ order[w - 1] = q
        BY <1>1, <2>1, <4>1, MovedNextTo
      <4> HIDE DEF order
      <4> QED
        BY <3>2, <4>2
    <3> QED
      BY <1>11, <3>1, <3>2
  <2>4. V[z].key = target
    <3> HIDE DEF order, z, n, U, V, q
    <3> QED
      BY <1>5, <2>1, <2>3
  <2>5. PlaceOf(N, target) = z
    <3> HIDE DEF z, n
    <3> QED
      BY <1>4, <2>3, <2>4, FoundAt
  <2>6. w \in Nat /\ w = z + (IF place = "before" THEN -1 ELSE 1)
    <3> HIDE DEF w, n
    <3> QED
      BY <1>1, <1>7, <1>11
  <2> HIDE DEF w, z
  <2> QED
    BY <1>9, <2>5, <2>6
<1> QED
  BY <1>10, <1>11

\* The same of a step that lands an edit.
LEMMA LandsStep == ViewInv /\ [ViewNext]_viewVars =>
        \A v \in Views : (Landed(v) /\ Asked(v).op = "reorder" /\ Named(Asked(v).moved)) =>
           LET order == UnitOrder(buffer')
               At(key) == FirstOf({n \in DOMAIN order : order[n] = key})
               target == Asked(v).target
           IN IF target = None THEN Last(order) = Asked(v).moved
              ELSE Named(target) =>
                     At(Asked(v).moved) = At(target) + (IF Asked(v).place = "before" THEN -1 ELSE 1)
<1> SUFFICES ASSUME ViewInv, [ViewNext]_viewVars, NEW v \in Views, Landed(v),
                    Asked(v).op = "reorder", Named(Asked(v).moved)
             PROVE  Lands(buffer', Asked(v).moved, Asked(v).target, Asked(v).place)
  BY DEF Lands
<1> DEFINE r == Asked(v)
<1>1. /\ IsSeq(buffer) /\ WellPlaced(buffer) /\ Paired(buffer) /\ UniqueIds(buffer)
      /\ Made(r, buffer, buffer') /\ buffer' # buffer
  BY LandedMakes
<1> HIDE DEF r
<1>2. /\ r.place # "start" /\ (r.target = None \/ r.place \in {"before", "after"})
      /\ ReorderUnit(buffer, r.moved, r.target, r.place) = Rewritten(buffer')
  BY <1>1 DEF Made, Makes, r
<1> QED
  BY <1>1, <1>2, ReorderLands DEF r

\* For any pages and edits: a named block that was dropped against a named
\* block lands next to it, on the side of the drop, and one dropped past the
\* end lands last (reorderUnit, pickDropTarget).
THEOREM DropsLand == ViewSpec => LandsWhereDropped
<1>1. ViewInv /\ [ViewNext]_viewVars =>
        [\A v \in Views : (Landed(v) /\ Asked(v).op = "reorder" /\ Named(Asked(v).moved)) =>
           LET order == UnitOrder(buffer')
               At(key) == FirstOf({n \in DOMAIN order : order[n] = key})
               target == Asked(v).target
           IN IF target = None THEN Last(order) = Asked(v).moved
              ELSE Named(target) =>
                     At(Asked(v).moved) = At(target) + (IF Asked(v).place = "before" THEN -1 ELSE 1)]_viewVars
  BY LandsStep
<1> QED
  BY <1>1, ViewsAreConsistent, PTL DEF ViewSpec, LandsWhereDropped

\* What the groups of a text are known by, and the atoms a group holds.
GroupName(l) == IF HasAttr(l, "id") THEN <<"group", l.attrs["id"]>> ELSE <<"faulted">>
AtomsTo(L, i) ==
    {L[k].attrs["id"] : k \in {j \in (i + 1)..UnitEnd(L, i) : L[j].kind = "atom" /\ HasAttr(L[j], "id")}}

\* A unit is a group where an opening marker begins it, known by that
\* marker's id.
LEMMA UnitSays ==
    ASSUME NEW L, IsSeq(L), UniqueIds(L), NEW n \in 1..Len(ComputeUnits(L))
    PROVE  LET u == ComputeUnits(L)[n]
               l == L[u.first]
           IN /\ u.kind = "group" <=> l.kind = "open"
              /\ u.kind = "group" =>
                   /\ (IF u.fault = "none" THEN u.key ELSE <<"faulted">>) = GroupName(l)
                   /\ u.atoms = AtomsTo(L, u.first)
<1> DEFINE U == ComputeUnits(L)
           S == UnitStarts(L)
           u == U[n]
           i == u.first
<1>1. /\ u = UnitAt(L, S, i) /\ i \in S /\ i \in 1..Len(L)
  BY ComputeFacts, StartFacts
<1>2. S \in SUBSET DOMAIN L /\ i \in DOMAIN L /\ i \in Int
  BY <1>1, StartFacts, SeqDomain
<1>3. u.kind = "group" <=> L[i].kind = "open"
  <2> HIDE DEF S, i, U
  <2>1. UnitAt(L, S, i).kind = "group" <=> L[i].kind = "open"
    BY KeyFacts
  <2> QED
    BY <1>1, <2>1
<1>4. ASSUME u.kind = "group"
      PROVE  /\ (IF u.fault = "none" THEN u.key ELSE <<"faulted">>) = GroupName(L[i])
             /\ u.atoms = AtomsTo(L, i)
  <2>1. L[i].kind = "open"
    BY <1>3, <1>4
  <2>2. /\ HasAttr(L[i], "id") => u.key = <<"group", L[i].attrs["id"]>> /\ u.fault = "none"
        /\ ~HasAttr(L[i], "id") => u.fault # "none"
    <3> HIDE DEF S, i, U, u
    <3> QED
      BY <1>1, <1>2, <2>1, GroupKey
  <2>3. u.atoms = AtomsTo(L, i)
    <3> HIDE DEF S, i, U, u
    <3> QED
      BY <1>1, <2>1 DEF UnitAt, UnitKind, AtomsTo
  <2> HIDE DEF i, u
  <2> QED
    BY <2>2, <2>3 DEF GroupName
<1> QED
  BY <1>3, <1>4

\* A group of a text is that of a unit that an opening marker begins.
GroupOf(L, i, m) == L[i].kind = "open" /\ m = <<GroupName(L[i]), AtomsTo(L, i)>>

\* The groups of a text are those of its units.
LEMMA UnitMembers ==
    ASSUME NEW L, IsSeq(L), UniqueIds(L), NEW m
    PROVE  m \in Members(L) <=> \E n \in 1..Units(L) : GroupOf(L, First(L, n), m)
<1> DEFINE U == ComputeUnits(L)
           Said(u) == <<IF u.fault = "none" THEN u.key ELSE <<"faulted">>, u.atoms>>
<1>1. DOMAIN U = 1..Len(U)
  BY ComputeFacts
<1>2. m \in Members(L) <=> \E n \in 1..Len(U) : U[n].kind = "group" /\ m = Said(U[n])
  <2>1. Members(L) = {Said(u) : u \in {w \in Range(U) : w.kind = "group"}}
    BY DEF Members
  <2>2. \A w : w \in Range(U) <=> \E n \in 1..Len(U) : w = U[n]
    <3> HIDE DEF U
    <3> QED
      BY <1>1 DEF Range
  <2> HIDE DEF U, Said
  <2> QED
    BY <2>1, <2>2
<1>3. \A n \in 1..Len(U) : (U[n].kind = "group" /\ m = Said(U[n])) <=> GroupOf(L, First(L, n), m)
  <2> SUFFICES ASSUME NEW n \in 1..Len(U)
               PROVE  (U[n].kind = "group" /\ m = Said(U[n])) <=> GroupOf(L, First(L, n), m)
    OBVIOUS
  <2>1. /\ U[n].kind = "group" <=> L[First(L, n)].kind = "open"
        /\ U[n].kind = "group" => Said(U[n]) = <<GroupName(L[First(L, n)]), AtomsTo(L, First(L, n))>>
    BY UnitSays DEF First
  <2> HIDE DEF U, Said
  <2> QED
    BY <2>1 DEF GroupOf
<1> HIDE DEF U, Said
<1> QED
  BY <1>2, <1>3 DEF Units, U

\* The lines of N from h to its end at h + r are those of L from f to its end.
Repeats(L, f, N, h, r) ==
    /\ f \in Nat /\ h \in Nat /\ r \in Nat /\ UnitEnd(L, f) = f + r /\ UnitEnd(N, h) = h + r
    /\ \A i \in 0..r : N[h + i] = L[f + i]

\* Where the lines are repeated, so are the atoms of the group.
LEMMA SameAtoms ==
    ASSUME NEW L, NEW N, NEW f, NEW h, NEW r, Repeats(L, f, N, h, r)
    PROVE  AtomsTo(N, h) = AtomsTo(L, f)
<1> USE DEF Repeats
<1> DEFINE A(k) == L[k].kind = "atom" /\ HasAttr(L[k], "id")
           B(k) == N[k].kind = "atom" /\ HasAttr(N[k], "id")
<1>1. \A x : x \in AtomsTo(L, f) <=> \E k \in (f + 1)..(f + r) : A(k) /\ x = L[k].attrs["id"]
  BY DEF AtomsTo
<1>2. \A x : x \in AtomsTo(N, h) <=> \E k \in (h + 1)..(h + r) : B(k) /\ x = N[k].attrs["id"]
  BY DEF AtomsTo
<1>3. ASSUME NEW x PROVE x \in AtomsTo(N, h) => x \in AtomsTo(L, f)
  <2> SUFFICES ASSUME NEW k \in (h + 1)..(h + r), B(k), x = N[k].attrs["id"]
               PROVE  x \in AtomsTo(L, f)
    BY <1>2
  <2> DEFINE i == k - h
  <2>1. i \in 0..r /\ h + i = k /\ f + i \in (f + 1)..(f + r)
    OBVIOUS
  <2> HIDE DEF i
  <2>2. N[k] = L[f + i]
    BY <2>1
  <2> QED
    BY <1>1, <2>1, <2>2
<1>4. ASSUME NEW x PROVE x \in AtomsTo(L, f) => x \in AtomsTo(N, h)
  <2> SUFFICES ASSUME NEW k \in (f + 1)..(f + r), A(k), x = L[k].attrs["id"]
               PROVE  x \in AtomsTo(N, h)
    BY <1>1
  <2> DEFINE i == k - f
  <2>1. i \in 0..r /\ f + i = k /\ h + i \in (h + 1)..(h + r)
    OBVIOUS
  <2> HIDE DEF i
  <2>2. N[h + i] = L[k]
    BY <2>1
  <2> QED
    BY <1>2, <2>1, <2>2
<1> QED
  BY <1>3, <1>4

\* Units laid out in another order are the same groups.
LEMMA LaidMembers ==
    ASSUME NEW L, IsSeq(L), Paired(L), UniqueIds(L), NEW order, Permutes(L, order),
           NEW N, NEW g, Laid(L, N, order, g), PreambleEnd(N) = PreambleEnd(L)
    PROVE  Members(N) = Members(L)
<1>1. IsSeq(N) /\ UniqueIds(N)
  BY LaidApart, LaidIds
<1>2. Units(N) = Units(L)
  BY LaidUnits DEF Units
<1>3. ASSUME NEW k \in 1..Units(L), NEW m
      PROVE  GroupOf(N, First(N, k), m) <=> GroupOf(L, From(L, order, k), m)
  <2> DEFINE f == From(L, order, k)
             r == Reach(L, order, k)
             h == g[k]
  <2>1. First(N, k) = h
    <3>1. ComputeUnits(N)[k] = UnitAt(N, UnitStarts(N), h)
      BY LaidUnits
    <3> QED
      BY <3>1 DEF UnitAt, First
  <2>2. /\ f \in Nat /\ h \in Nat /\ r \in Nat /\ UnitEnd(L, f) = f + r
        /\ \A i \in 0..r : N[h + i] = L[f + i]
    <3>1. UnitCopy(L, N, order, g, k)
      BY LaidUnit
    <3>2. f \in Nat /\ h \in Nat /\ r \in Nat /\ UnitEnd(L, f) = f + r
      BY <3>1 DEF UnitCopy
    <3>3. \A i \in 0..r : N[h + i] = L[f + i]
      BY <3>1 DEF UnitCopy
    <3> QED
      BY <3>2, <3>3
  <2>3. UnitEnd(N, h) = h + r
    BY LaidEnd
  <2> HIDE DEF f, r, h
  <2>4. N[h] = L[f]
    <3>1. 0 \in 0..r /\ h + 0 = h /\ f + 0 = f
      BY <2>2
    <3> QED
      BY <2>2, <3>1
  <2>5. AtomsTo(N, h) = AtomsTo(L, f)
    <3>1. Repeats(L, f, N, h, r)
      BY <2>2, <2>3 DEF Repeats
    <3> QED
      BY <3>1, SameAtoms
  <2> QED
    BY <2>1, <2>4, <2>5 DEF GroupOf, f
<1>4. ASSUME NEW m, m \in Members(N) PROVE m \in Members(L)
  <2>1. PICK k \in 1..Units(N) : GroupOf(N, First(N, k), m)
    BY <1>1, <1>4, UnitMembers
  <2>2. GroupOf(L, First(L, order[k]), m) /\ order[k] \in 1..Units(L)
    BY <1>2, <1>3, <2>1 DEF From, Permutes, Units
  <2> QED
    BY <2>2, UnitMembers
<1>5. ASSUME NEW m, m \in Members(L) PROVE m \in Members(N)
  <2>1. PICK u \in 1..Units(L) : GroupOf(L, First(L, u), m)
    BY <1>5, UnitMembers
  <2>2. PICK k \in 1..Units(L) : order[k] = u
    BY <2>1 DEF Permutes, Units
  <2>3. GroupOf(N, First(N, k), m)
    BY <1>3, <2>1, <2>2 DEF From
  <2> QED
    BY <1>1, <1>2, <2>3, UnitMembers
<1> QED
  BY <1>4, <1>5

\* A move leaves every group with its atoms.
LEMMA ReorderMembers ==
    ASSUME NEW L, IsSeq(L), WellPlaced(L), Paired(L), UniqueIds(L), NEW moved, NEW target,
           NEW place, place # "start",
           NEW N, ReorderUnit(L, moved, target, place) = Rewritten(N), N # L
    PROVE  Members(N) = Members(L)
<1> DEFINE U == ComputeUnits(L)
           order == MovedOrder(Len(U), FindUnit(U, moved), TargetIndex(U, target, place))
<1>1. Permutes(L, order) /\ \E g : Laid(L, N, order, g)
  BY ReorderLaid
<1>2. \A i \in 1..Len(L) : L[i].kind = "doc" => i <= PreambleEnd(L)
  BY SeqDomain DEF WellPlaced
<1> HIDE DEF order
<1>3. PICK g : Laid(L, N, order, g)
  BY <1>1
<1>4. PreambleEnd(N) = PreambleEnd(L)
  BY <1>1, <1>2, <1>3, LaidPreamble
<1> QED
  BY <1>1, <1>3, <1>4, LaidMembers

\* No group is opened inside of one.
NoNesting(L) == \A i \in 1..Len(L) : L[i].kind = "open" => GroupLine(L, i) = 0

\* Where markers alternate no group is opened inside of one.
LEMMA PairsDoNotNest ==
    ASSUME NEW L, IsSeq(L), Paired(L)
    PROVE  NoNesting(L)
BY PairedFacts DEF NoNesting

\* A group ends at the first closing marker, or with the text.
LEMMA OpenEnd ==
    ASSUME NEW L, IsSeq(L), NEW o \in 1..Len(L), L[o].kind = "open"
    PROVE  /\ UnitEnd(L, o) \in o..Len(L)
           /\ \A k \in o..(UnitEnd(L, o) - 1) : L[k].kind # "close"
           /\ UnitEnd(L, o) < Len(L) => L[UnitEnd(L, o)].kind = "close"
<1> DEFINE closes == {j \in o..Len(L) : L[j].kind = "close"}
<1>1. UnitEnd(L, o) = IF closes = {} THEN Len(L) ELSE Min(closes)
  BY DEF UnitEnd
<1>2. Len(L) \in Nat /\ o \in Nat
  BY SeqDomain
<1>3. CASE closes = {}
  BY <1>1, <1>2, <1>3
<1>4. CASE closes # {}
  <2>1. closes \in SUBSET Nat
    BY <1>2
  <2>2. Min(closes) \in closes /\ \A n \in closes : Min(closes) <= n
    BY <1>4, <2>1, MinFacts
  <2> DEFINE e == Min(closes)
  <2>3. e \in o..Len(L) /\ L[e].kind = "close" /\ UnitEnd(L, o) = e
    BY <1>1, <1>4, <2>2
  <2>4. ASSUME NEW k \in o..(e - 1) PROVE L[k].kind # "close"
    <3>1. k \in o..Len(L) /\ ~(e <= k)
      <4> HIDE DEF e
      <4> QED
        BY <1>2, <2>3
    <3>2. k \notin closes
      BY <2>2, <3>1
    <3> QED
      BY <3>1, <3>2
  <2> HIDE DEF e
  <2> QED
    BY <2>3, <2>4
<1> QED
  BY <1>3, <1>4

AtomsIn(L, o) ==
    {L[k].attrs["id"] : k \in {j \in 1..Len(L) :
        L[j].kind = "atom" /\ HasAttr(L[j], "id") /\ GroupLine(L, j) = o}}

\* An atom is in a group's unit where the last marker above it opens that
\* group.
LEMMA InsideIs ==
    ASSUME NEW L, IsSeq(L), NoNesting(L), NEW o \in 1..Len(L), L[o].kind = "open",
           NEW k \in 1..Len(L), L[k].kind = "atom"
    PROVE  k \in (o + 1)..UnitEnd(L, o) <=> GroupLine(L, k) = o
<1> DEFINE e == UnitEnd(L, o)
           g == GroupLine(L, k)
<1>1. /\ e \in o..Len(L) /\ Len(L) \in Nat
      /\ \A j \in o..(e - 1) : L[j].kind # "close"
      /\ e < Len(L) => L[e].kind = "close"
  BY OpenEnd, SeqDomain
<1>2. /\ g \in 0..(k - 1)
      /\ g # 0 => L[g].kind = "open" /\ \A j \in (g + 1)..(k - 1) : ~IsMarker(L[j])
      /\ g = 0 => \A j \in 1..(k - 1) : L[j].kind = "open" =>
                    \E c \in (j + 1)..(k - 1) : L[c].kind = "close"
  <2>1. k \in 1..(Len(L) + 1)
    BY <1>1
  <2> QED
    BY <2>1, GroupLineFacts
<1>3. ASSUME k \in (o + 1)..e PROVE g = o
  <2>1. \A j \in o..(k - 1) : L[j].kind # "close"
    BY <1>1, <1>3
  <2>2. g # 0
    <3>1. o \in 1..(k - 1)
      BY <1>3
    <3> HIDE DEF g, e
    <3> QED
      BY <1>2, <2>1, <3>1
  <2>3. o <= g
    <3>1. IsMarker(L[o])
      BY DEF IsMarker
    <3> HIDE DEF g, e
    <3>2. o \notin (g + 1)..(k - 1)
      BY <1>2, <2>2, <3>1
    <3> QED
      BY <1>1, <1>2, <1>3, <3>2
  <2>4. ~(o < g)
    <3> SUFFICES ASSUME o < g PROVE FALSE
      OBVIOUS
    <3> HIDE DEF g, e
    <3>1. g \in 1..Len(L) /\ g \in 1..(Len(L) + 1) /\ o \in 1..(g - 1)
      BY <1>1, <1>2
    <3>2. GroupLine(L, g) = 0
      BY <1>2, <2>2, <3>1 DEF NoNesting
    <3>3. \E c \in (o + 1)..(g - 1) : L[c].kind = "close"
      BY <3>1, <3>2, GroupLineFacts
    <3> QED
      BY <1>2, <2>1, <3>3
  <2> HIDE DEF g, e
  <2> QED
    BY <1>1, <1>2, <2>3, <2>4
<1>4. ASSUME g = o PROVE k \in (o + 1)..e
  <2> HIDE DEF e
  <2>1. \A j \in (o + 1)..(k - 1) : ~IsMarker(L[j])
    BY <1>2, <1>4
  <2>2. o < k
    BY <1>2, <1>4
  <2>3. ASSUME e < k PROVE FALSE
    <3>1. L[e].kind = "close"
      BY <1>1, <2>3
    <3>2. e # o
      BY <3>1
    <3>3. e \in (o + 1)..(k - 1)
      BY <1>1, <2>3, <3>2
    <3> QED
      BY <2>1, <3>1, <3>3 DEF IsMarker
  <2> QED
    BY <1>1, <2>2, <2>3
<1> QED
  BY <1>3, <1>4

\* The atoms of a group's unit are those whose last marker above is the
\* group's.
LEMMA AtomsAre ==
    ASSUME NEW L, IsSeq(L), NoNesting(L), NEW o \in 1..Len(L), L[o].kind = "open"
    PROVE  AtomsTo(L, o) = AtomsIn(L, o)
<1>1. UnitEnd(L, o) \in o..Len(L) /\ Len(L) \in Nat
  BY OpenEnd, SeqDomain
<1>2. \A k \in (o + 1)..UnitEnd(L, o) : k \in 1..Len(L)
  BY <1>1
<1>3. \A k \in 1..Len(L) : L[k].kind = "atom" =>
         (k \in (o + 1)..UnitEnd(L, o) <=> GroupLine(L, k) = o)
  BY InsideIs
<1>4. {j \in (o + 1)..UnitEnd(L, o) : L[j].kind = "atom" /\ HasAttr(L[j], "id")}
        = {j \in 1..Len(L) : L[j].kind = "atom" /\ HasAttr(L[j], "id") /\ GroupLine(L, j) = o}
  BY <1>2, <1>3
<1> QED
  BY <1>4 DEF AtomsTo, AtomsIn

\* Every opening marker begins a unit.
LEMMA OpenStarts ==
    ASSUME NEW L, IsSeq(L), NoNesting(L), NEW o \in 1..Len(L), L[o].kind = "open"
    PROVE  o \in UnitStarts(L)
<1>1. GroupLine(L, o) = 0
  BY DEF NoNesting
<1>2. o \in (PreambleEnd(L) + 1)..Len(L)
  <2>1. /\ PreambleEnd(L) \in 0..Len(L) /\ Len(L) \in Nat
        /\ \A j \in 1..PreambleEnd(L) : IsBlank(L[j]) \/ L[j].kind = "doc"
    BY PreambleFacts, SeqDomain
  <2>2. o \notin 1..PreambleEnd(L)
    BY <2>1 DEF IsBlank
  <2> QED
    BY <2>1, <2>2
<1>3. ~IsBlank(L[o]) /\ LooksLikeDirectiveLine(L[o])
  BY DEF IsBlank, LooksLikeDirectiveLine
<1> QED
  BY <1>1, <1>2, <1>3, StartFacts

\* A group of a text is that of an opening marker, with the atoms below it.
GroupAt(L, o, m) == L[o].kind = "open" /\ m = <<GroupName(L[o]), AtomsIn(L, o)>>

\* The groups of a text are those of its opening markers.
LEMMA MembersAre ==
    ASSUME NEW L, IsSeq(L), NoNesting(L), UniqueIds(L), NEW m
    PROVE  m \in Members(L) <=> \E o \in 1..Len(L) : GroupAt(L, o, m)
<1>1. \A o \in 1..Len(L) : GroupOf(L, o, m) <=> GroupAt(L, o, m)
  BY AtomsAre DEF GroupOf, GroupAt
<1>2. ASSUME m \in Members(L) PROVE \E o \in 1..Len(L) : GroupAt(L, o, m)
  <2>1. PICK n \in 1..Units(L) : GroupOf(L, First(L, n), m)
    BY <1>2, UnitMembers
  <2>2. First(L, n) \in 1..Len(L)
    BY <2>1, AnyUnit DEF First, Units
  <2> QED
    BY <1>1, <2>1, <2>2
<1>3. ASSUME NEW o \in 1..Len(L), GroupAt(L, o, m) PROVE m \in Members(L)
  <2>1. o \in UnitStarts(L)
    BY <1>3, OpenStarts DEF GroupAt
  <2>2. PICK n \in 1..Units(L) : First(L, n) = o
    BY <2>1, ComputeFacts DEF First, Units
  <2> QED
    BY <1>1, <1>3, <2>2, UnitMembers
<1> QED
  BY <1>2, <1>3

\* The lines that tell which atoms a text has and which groups they are in.
Directive(l) == l.kind \in {"atom", "open", "close"}
SameDirective(l, m) ==
    /\ m.kind = l.kind
    /\ l.kind # "close" => (HasAttr(m, "id") <=> HasAttr(l, "id"))
    /\ (l.kind # "close" /\ HasAttr(l, "id")) => m.attrs["id"] = l.attrs["id"]

Stays(A, D, i) == i \in 1..Len(A) /\ Directive(A[i]) /\ i \notin D
\* The directives of B are those of A but for the lines D, in their order: the line i of A
\* is the line p[i] of B.
Slides(A, B, D, p) ==
    /\ \A i : Stays(A, D, i) => p[i] \in 1..Len(B) /\ SameDirective(A[i], B[p[i]])
    /\ \A i, k : (Stays(A, D, i) /\ Stays(A, D, k) /\ i < k) => p[i] < p[k]
    /\ \A j \in 1..Len(B) : Directive(B[j]) => \E i : Stays(A, D, i) /\ p[i] = j

\* What is left out is nothing, or the two markers of a group.
Drops(A, D, o) ==
    \/ D = {} /\ o = 0
    \/ /\ o \in 1..Len(A) /\ A[o].kind = "open"
       /\ \E c \in (o + 1)..Len(A) : /\ D = {o, c} /\ A[c].kind = "close"
                                     /\ \A k \in (o + 1)..(c - 1) : ~IsMarker(A[k])

\* The directives that stay are in the same order in both texts.
LEMMA SlideOrder ==
    ASSUME NEW A, NEW B, IsSeq(A), IsSeq(B), NEW D, NEW p, Slides(A, B, D, p),
           NEW i, NEW k, Stays(A, D, i), Stays(A, D, k)
    PROVE  /\ i \in Nat /\ k \in Nat /\ p[i] \in Nat /\ p[k] \in Nat
           /\ p[i] < p[k] => i < k
           /\ i < k => p[i] < p[k]
           /\ p[i] = p[k] => i = k
<1>1. i \in Nat /\ k \in Nat
  BY DEF Stays
<1>2. p[i] \in Nat /\ p[k] \in Nat
  BY DEF Slides
<1>3. (i < k => p[i] < p[k]) /\ (k < i => p[k] < p[i])
  BY DEF Slides
<1> QED
  BY <1>1, <1>2, <1>3

\* Above a directive that stays, every group but the dropped one is closed by a marker
\* that stays.
LEMMA ClosedAbove ==
    ASSUME NEW A, IsSeq(A), NoNesting(A), NEW D, NEW o, Drops(A, D, o),
           NEW i, Stays(A, D, i), GroupLine(A, i) \in {0, o},
           NEW k, Stays(A, D, k), A[k].kind = "open", k < i
    PROVE  \E y : Stays(A, D, y) /\ A[y].kind = "close" /\ k < y /\ y < i
<1>1. i \in 1..Len(A) /\ k \in 1..Len(A) /\ Len(A) \in Nat /\ k \notin D /\ i \notin D
  BY SeqDomain DEF Stays
<1>2. i \in 1..(Len(A) + 1) /\ k \in 1..(i - 1)
  BY <1>1
<1>3. GroupLine(A, i) # 0 => \A j \in (GroupLine(A, i) + 1)..(i - 1) : ~IsMarker(A[j])
  BY <1>2, GroupLineFacts
<1>4. GroupLine(A, i) = 0 => \E c \in (k + 1)..(i - 1) : A[c].kind = "close"
  BY <1>2, GroupLineFacts
<1>5. IsMarker(A[k])
  BY DEF IsMarker
<1>6. ASSUME NEW y \in (k + 1)..(i - 1), A[y].kind = "close", y \notin D
      PROVE  Stays(A, D, y) /\ A[y].kind = "close" /\ k < y /\ y < i
  BY <1>1, <1>6 DEF Stays, Directive
<1>7. CASE D = {}
  <2>1. o = 0
    BY <1>7 DEF Drops
  <2> QED
    BY <1>4, <1>6, <1>7, <2>1
<1>8. CASE D # {}
  <2>1. PICK c \in (o + 1)..Len(A) : /\ D = {o, c} /\ A[c].kind = "close"
                                     /\ \A j \in (o + 1)..(c - 1) : ~IsMarker(A[j])
    BY <1>8 DEF Drops
  <2>2. o \in 1..Len(A) /\ A[o].kind = "open"
    BY <1>8 DEF Drops
  <2>3. k # o /\ k # c /\ c \in 1..Len(A) /\ o < c
    BY <1>1, <2>1, <2>2
  <2>4. ASSUME k < o, o < i PROVE \E y \in (k + 1)..(i - 1) : A[y].kind = "close" /\ y \notin D
    <3>1. GroupLine(A, o) = 0
      BY <2>2 DEF NoNesting
    <3>2. o \in 1..(Len(A) + 1) /\ k \in 1..(o - 1)
      BY <1>1, <2>2, <2>4
    <3>3. PICK y \in (k + 1)..(o - 1) : A[y].kind = "close"
      BY <3>1, <3>2, GroupLineFacts
    <3>4. y \in (k + 1)..(i - 1) /\ y < o
      BY <1>1, <2>2, <2>4, <3>3
    <3>5. y # o /\ y # c
      BY <1>1, <2>2, <2>3, <3>4
    <3> QED
      BY <2>1, <3>3, <3>4, <3>5
  <2>5. CASE GroupLine(A, i) = o
    <3>1. o # 0 /\ o < i
      <4>1. GroupLine(A, i) \in 0..(i - 1)
        BY <1>2, GroupLineFacts
      <4> QED
        BY <1>1, <2>2, <2>5, <4>1
    <3>2. k \notin (o + 1)..(i - 1)
      BY <1>3, <1>5, <2>5, <3>1
    <3>3. k < o
      BY <1>1, <1>2, <2>2, <2>3, <3>2
    <3> QED
      BY <1>6, <2>4, <3>1, <3>3
  <2>6. CASE GroupLine(A, i) = 0
    <3>1. PICK y \in (k + 1)..(i - 1) : A[y].kind = "close"
      BY <1>4, <2>6
    <3>2. CASE y \notin D
      BY <1>6, <3>1, <3>2
    <3>3. CASE y \in D
      <4>1. y = c
        BY <2>1, <2>2, <3>1, <3>3
      <4>2. k \notin (o + 1)..(c - 1)
        BY <1>5, <2>1
      <4>3. k < o /\ o < i
        BY <1>1, <2>2, <2>3, <3>1, <4>1, <4>2
      <4> QED
        BY <1>6, <2>4, <4>3
    <3> QED
      BY <3>2, <3>3
  <2> QED
    BY <2>5, <2>6
<1> QED
  BY <1>7, <1>8

\* An opening marker with no marker below it, down to a line, is that line's.
LEMMA GroupLineIs ==
    ASSUME NEW L, IsSeq(L), NEW i \in 1..(Len(L) + 1), NEW g \in 1..(i - 1), L[g].kind = "open",
           \A k \in (g + 1)..(i - 1) : ~IsMarker(L[k])
    PROVE  GroupLine(L, i) = g
<1> DEFINE h == GroupLine(L, i)
<1>1. Len(L) \in Nat
  BY SeqDomain
<1>2. /\ h \in 0..(i - 1)
      /\ h # 0 => L[h].kind = "open" /\ \A k \in (h + 1)..(i - 1) : ~IsMarker(L[k])
      /\ h = 0 => \A o \in 1..(i - 1) : L[o].kind = "open" =>
                    \E c \in (o + 1)..(i - 1) : L[c].kind = "close"
  BY GroupLineFacts
<1> HIDE DEF h
<1>3. h # 0
  BY <1>2 DEF IsMarker
<1>4. g \notin (h + 1)..(i - 1) /\ h \notin (g + 1)..(i - 1)
  BY <1>2, <1>3 DEF IsMarker
<1>5. g = h
  BY <1>1, <1>2, <1>4
<1> QED
  BY <1>5 DEF h

\* A directive is in the group it was in, or in none if its group is dropped.
LEMMA SlideGroup ==
    ASSUME NEW A, NEW B, IsSeq(A), IsSeq(B), NoNesting(A), NEW D, NEW o, Drops(A, D, o),
           NEW p, Slides(A, B, D, p), NEW i, Stays(A, D, i)
    PROVE  /\ GroupLine(A, i) \in {0, o} => GroupLine(B, p[i]) = 0
           /\ GroupLine(A, i) \notin {0, o} =>
                Stays(A, D, GroupLine(A, i)) /\ GroupLine(B, p[i]) = p[GroupLine(A, i)]
<1> DEFINE g == GroupLine(A, i)
           j == p[i]
           h == GroupLine(B, j)
<1>1. /\ i \in 1..Len(A) /\ Len(A) \in Nat /\ i \in 1..(Len(A) + 1)
      /\ j \in 1..Len(B) /\ Len(B) \in Nat /\ j \in 1..(Len(B) + 1)
  <2>1. i \in 1..Len(A) /\ j \in 1..Len(B)
    BY DEF Stays, Slides
  <2>2. Len(A) \in Nat /\ Len(B) \in Nat
    BY SeqDomain
  <2> HIDE DEF j
  <2> QED
    BY <2>1, <2>2
<1>2. ASSUME g \in {0, o} PROVE h = 0
  <2> SUFFICES ASSUME h # 0 PROVE FALSE
    OBVIOUS
  <2>1. /\ h \in 1..(j - 1) /\ B[h].kind = "open"
        /\ \A k \in (h + 1)..(j - 1) : ~IsMarker(B[k])
    <3>1. /\ h \in 0..(j - 1)
          /\ h # 0 => B[h].kind = "open" /\ \A k \in (h + 1)..(j - 1) : ~IsMarker(B[k])
      <4> HIDE DEF j
      <4> QED
        BY <1>1, GroupLineFacts
    <3> HIDE DEF h, j
    <3> QED
      BY <1>1, <3>1
  <2>2. h \in 1..Len(B) /\ Directive(B[h])
    <3> HIDE DEF h, j
    <3> QED
      BY <1>1, <2>1 DEF Directive
  <2>3. PICK k : Stays(A, D, k) /\ p[k] = h
    <3> HIDE DEF h, j
    <3> QED
      BY <2>2 DEF Slides
  <2>4. A[k].kind = "open"
    <3>1. SameDirective(A[k], B[p[k]])
      BY <2>3 DEF Slides
    <3> HIDE DEF h, j
    <3> QED
      BY <2>1, <2>3, <3>1 DEF SameDirective
  <2>5. k < i
    <3>1. p[k] < p[i]
      <4> HIDE DEF h
      <4>1. p[k] < j
        <5> HIDE DEF j
        <5> QED
          BY <1>1, <2>1, <2>3
      <4> QED
        BY <4>1
    <3> QED
      BY <2>3, <3>1, SlideOrder
  <2>6. PICK y : Stays(A, D, y) /\ A[y].kind = "close" /\ k < y /\ y < i
    BY <1>2, <2>3, <2>4, <2>5, ClosedAbove
  <2>7. p[k] < p[y] /\ p[y] < p[i] /\ p[y] \in 1..Len(B) /\ SameDirective(A[y], B[p[y]])
    BY <2>3, <2>6 DEF Slides
  <2>8. IsMarker(B[p[y]])
    BY <2>6, <2>7 DEF SameDirective, IsMarker
  <2>9. p[y] \in (h + 1)..(j - 1)
    <3> HIDE DEF h
    <3>1. p[y] < j /\ p[k] < p[y]
      BY <2>7
    <3> HIDE DEF j
    <3> QED
      BY <1>1, <2>1, <2>3, <2>7, <3>1
  <2> QED
    BY <2>1, <2>8, <2>9
<1>3. ASSUME g \notin {0, o} PROVE Stays(A, D, g) /\ h = p[g]
  <2>1. /\ g \in 1..(i - 1) /\ A[g].kind = "open" /\ \A k \in (g + 1)..(i - 1) : ~IsMarker(A[k])
    <3>1. /\ g \in 0..(i - 1)
          /\ g # 0 => A[g].kind = "open" /\ \A k \in (g + 1)..(i - 1) : ~IsMarker(A[k])
      BY <1>1, GroupLineFacts
    <3> HIDE DEF g, h
    <3> QED
      BY <1>1, <1>3, <3>1
  <2>2. g \notin D
    <3> HIDE DEF g, h
    <3> QED
      BY <1>3, <2>1 DEF Drops
  <2>3. Stays(A, D, g)
    <3> HIDE DEF g, h
    <3> QED
      BY <1>1, <2>1, <2>2 DEF Stays, Directive
  <2>4. p[g] < j /\ p[g] \in 1..Len(B) /\ B[p[g]].kind = "open"
    <3>1. g < i
      <4> HIDE DEF g, h
      <4> QED
        BY <1>1, <2>1
    <3>2. p[g] < p[i]
      BY <2>3, <3>1, SlideOrder
    <3>3. p[g] \in 1..Len(B) /\ SameDirective(A[g], B[p[g]])
      BY <2>3 DEF Slides
    <3> HIDE DEF g, h
    <3> QED
      BY <2>1, <3>2, <3>3 DEF SameDirective
  <2>5. ASSUME NEW x \in (p[g] + 1)..(j - 1), IsMarker(B[x]) PROVE FALSE
    <3>1. x \in 1..Len(B) /\ p[g] < x /\ x < p[i]
      <4>1. x < j /\ p[g] < x
        <5> HIDE DEF g, h, j
        <5> QED
          BY <1>1, <2>4, <2>5
      <4>2. x \in 1..Len(B)
        <5> HIDE DEF g, h, j
        <5> QED
          BY <1>1, <2>4, <2>5
      <4> QED
        BY <4>1, <4>2
    <3>2. PICK y : Stays(A, D, y) /\ p[y] = x
      BY <2>5, <3>1 DEF Slides, IsMarker, Directive
    <3>3. g < y /\ y < i
      BY <2>3, <3>1, <3>2, SlideOrder
    <3>4. IsMarker(A[y])
      <4>1. SameDirective(A[y], B[p[y]])
        BY <3>2 DEF Slides
      <4> QED
        BY <2>5, <3>2, <4>1 DEF SameDirective, IsMarker
    <3>5. y \in Nat
      BY <3>2 DEF Stays
    <3> HIDE DEF g, h
    <3> QED
      BY <1>1, <2>1, <3>3, <3>4, <3>5
  <2>6. h = p[g]
    <3>1. p[g] \in 1..(j - 1)
      <4> HIDE DEF g, h, j
      <4> QED
        BY <1>1, <2>4
    <3> HIDE DEF g, j
    <3> QED
      BY <1>1, <2>4, <2>5, <3>1, GroupLineIs
  <2> QED
    BY <2>3, <2>6
<1> QED
  BY <1>2, <1>3

\* Taking markers of one group away puts no group into another.
LEMMA SlideNesting ==
    ASSUME NEW A, NEW B, IsSeq(A), IsSeq(B), NoNesting(A), NEW D, NEW o, Drops(A, D, o),
           NEW p, Slides(A, B, D, p)
    PROVE  NoNesting(B)
<1> SUFFICES ASSUME NEW j \in 1..Len(B), B[j].kind = "open" PROVE GroupLine(B, j) = 0
  BY DEF NoNesting
<1>1. PICK i : Stays(A, D, i) /\ p[i] = j
  BY DEF Slides, Directive
<1>2. SameDirective(A[i], B[p[i]])
  BY <1>1 DEF Slides
<1>3. i \in 1..Len(A) /\ A[i].kind = "open"
  BY <1>1, <1>2 DEF Stays, SameDirective
<1>4. GroupLine(A, i) = 0
  BY <1>3 DEF NoNesting
<1> QED
  BY <1>1, <1>4, SlideGroup

\* Taking markers away leaves no id twice.
LEMMA SlideIds ==
    ASSUME NEW A, NEW B, IsSeq(A), IsSeq(B), UniqueIds(A), NEW D, NEW p, Slides(A, B, D, p)
    PROVE  UniqueIds(B)
<1> SUFFICES ASSUME NEW j \in Carriers(B), NEW k \in Carriers(B), j # k,
                    HasAttr(B[j], "id"), HasAttr(B[k], "id")
             PROVE  B[j].attrs["id"] # B[k].attrs["id"]
  BY DEF UniqueIds
<1>1. ASSUME NEW x \in Carriers(B), HasAttr(B[x], "id")
      PROVE  \E i : /\ i \in Carriers(A) /\ p[i] = x /\ HasAttr(A[i], "id")
                    /\ B[x].attrs["id"] = A[i].attrs["id"]
  <2>1. x \in 1..Len(B) /\ B[x].kind \in {"atom", "open"}
    BY SeqDomain DEF Carriers
  <2>2. PICK i : Stays(A, D, i) /\ p[i] = x
    BY <2>1 DEF Slides, Directive
  <2>3. SameDirective(A[i], B[x])
    BY <2>2 DEF Slides
  <2>4. i \in Carriers(A) /\ HasAttr(A[i], "id") /\ B[x].attrs["id"] = A[i].attrs["id"]
    BY <1>1, <2>1, <2>2, <2>3, SeqDomain DEF SameDirective, Stays, Carriers
  <2> QED
    BY <2>2, <2>4
<1>2. PICK i : /\ i \in Carriers(A) /\ p[i] = j /\ HasAttr(A[i], "id")
               /\ B[j].attrs["id"] = A[i].attrs["id"]
  BY <1>1
<1>3. PICK l : /\ l \in Carriers(A) /\ p[l] = k /\ HasAttr(A[l], "id")
               /\ B[k].attrs["id"] = A[l].attrs["id"]
  BY <1>1
<1>4. i # l
  BY <1>2, <1>3
<1> QED
  BY <1>2, <1>3, <1>4 DEF UniqueIds

\* A group that stays has the same atoms in the other text.
LEMMA SlideAtoms ==
    ASSUME NEW A, NEW B, IsSeq(A), IsSeq(B), NoNesting(A), NEW D, NEW o, Drops(A, D, o),
           NEW p, Slides(A, B, D, p), NEW g, Stays(A, D, g), A[g].kind = "open"
    PROVE  AtomsIn(B, p[g]) = AtomsIn(A, g)
<1> DEFINE Of(L, k, h) == L[k].kind = "atom" /\ HasAttr(L[k], "id") /\ GroupLine(L, k) = h
<1>1. \A L, h, x : x \in AtomsIn(L, h) <=> \E k \in 1..Len(L) : Of(L, k, h) /\ x = L[k].attrs["id"]
  BY DEF AtomsIn
<1>2. p[g] # 0 /\ g # 0 /\ g # o
  <2>1. p[g] \in 1..Len(B) /\ g \in 1..Len(A) /\ g \notin D
    BY DEF Slides, Stays
  <2> QED
    BY <2>1 DEF Drops
<1>3. ASSUME NEW k, Stays(A, D, k), A[k].kind = "atom"
      PROVE  /\ p[k] \in 1..Len(B) /\ (Of(B, p[k], p[g]) <=> Of(A, k, g))
             /\ HasAttr(A[k], "id") => B[p[k]].attrs["id"] = A[k].attrs["id"]
  <2>1. p[k] \in 1..Len(B) /\ SameDirective(A[k], B[p[k]])
    BY <1>3 DEF Slides
  <2>2. /\ B[p[k]].kind = "atom" /\ (HasAttr(B[p[k]], "id") <=> HasAttr(A[k], "id"))
        /\ HasAttr(A[k], "id") => B[p[k]].attrs["id"] = A[k].attrs["id"]
    BY <1>3, <2>1 DEF SameDirective
  <2>3. GroupLine(B, p[k]) = p[g] <=> GroupLine(A, k) = g
    <3>1. CASE GroupLine(A, k) \in {0, o}
      <4>1. GroupLine(B, p[k]) = 0
        BY <1>3, <3>1, SlideGroup
      <4> QED
        BY <1>2, <3>1, <4>1
    <3>2. CASE GroupLine(A, k) \notin {0, o}
      <4>1. Stays(A, D, GroupLine(A, k)) /\ GroupLine(B, p[k]) = p[GroupLine(A, k)]
        BY <1>3, <3>2, SlideGroup
      <4>2. p[GroupLine(A, k)] = p[g] => GroupLine(A, k) = g
        BY <4>1, SlideOrder
      <4> QED
        BY <4>1, <4>2
    <3> QED
      BY <3>1, <3>2
  <2> QED
    BY <1>3, <2>1, <2>2, <2>3
<1>4. ASSUME NEW x \in AtomsIn(A, g) PROVE x \in AtomsIn(B, p[g])
  <2>1. PICK k \in 1..Len(A) : Of(A, k, g) /\ x = A[k].attrs["id"]
    BY <1>1, <1>4
  <2>2. Stays(A, D, k)
    <3>1. k \notin D
      BY <2>1 DEF Drops
    <3> QED
      BY <2>1, <3>1 DEF Stays, Directive
  <2>3. p[k] \in 1..Len(B) /\ Of(B, p[k], p[g]) /\ x = B[p[k]].attrs["id"]
    BY <1>3, <2>1, <2>2
  <2> HIDE DEF Of
  <2> QED
    BY <1>1, <2>3
<1>5. ASSUME NEW x \in AtomsIn(B, p[g]) PROVE x \in AtomsIn(A, g)
  <2>1. PICK j \in 1..Len(B) : Of(B, j, p[g]) /\ x = B[j].attrs["id"]
    BY <1>1, <1>5
  <2>2. PICK k : Stays(A, D, k) /\ p[k] = j
    BY <2>1 DEF Slides, Directive
  <2>3. A[k].kind = "atom" /\ k \in 1..Len(A)
    <3>1. SameDirective(A[k], B[p[k]])
      BY <2>2 DEF Slides
    <3> QED
      BY <2>1, <2>2, <3>1 DEF SameDirective, Stays
  <2>4. Of(A, k, g) /\ x = A[k].attrs["id"]
    BY <1>3, <2>1, <2>2, <2>3
  <2> HIDE DEF Of
  <2> QED
    BY <1>1, <2>3, <2>4
<1> QED
  BY <1>4, <1>5

\* The groups that are not dropped are the groups of the other text.
LEMMA SlideMembers ==
    ASSUME NEW A, NEW B, IsSeq(A), IsSeq(B), NoNesting(A), UniqueIds(A), NEW D, NEW o, Drops(A, D, o),
           NEW p, Slides(A, B, D, p), NEW m
    PROVE  m \in Members(B) <=> \E g \in 1..Len(A) : g \notin D /\ GroupAt(A, g, m)
<1>1. NoNesting(B) /\ UniqueIds(B)
  BY SlideNesting, SlideIds
<1>2. ASSUME NEW g, Stays(A, D, g), A[g].kind = "open"
      PROVE  p[g] \in 1..Len(B) /\ (GroupAt(B, p[g], m) <=> GroupAt(A, g, m))
  <2>1. p[g] \in 1..Len(B) /\ SameDirective(A[g], B[p[g]])
    BY <1>2 DEF Slides
  <2>2. GroupName(B[p[g]]) = GroupName(A[g]) /\ B[p[g]].kind = "open"
    BY <1>2, <2>1 DEF SameDirective, GroupName
  <2>3. AtomsIn(B, p[g]) = AtomsIn(A, g)
    BY <1>2, SlideAtoms
  <2> QED
    BY <1>2, <2>1, <2>2, <2>3 DEF GroupAt
<1>3. ASSUME m \in Members(B) PROVE \E g \in 1..Len(A) : g \notin D /\ GroupAt(A, g, m)
  <2>1. PICK j \in 1..Len(B) : GroupAt(B, j, m)
    BY <1>1, <1>3, MembersAre
  <2>2. PICK g : Stays(A, D, g) /\ p[g] = j
    BY <2>1 DEF GroupAt, Slides, Directive
  <2>3. SameDirective(A[g], B[p[g]])
    BY <2>2 DEF Slides
  <2>4. A[g].kind = "open" /\ g \in 1..Len(A) /\ g \notin D
    BY <2>1, <2>2, <2>3 DEF SameDirective, GroupAt, Stays
  <2> QED
    BY <1>2, <2>1, <2>2, <2>4
<1>4. ASSUME NEW g \in 1..Len(A), g \notin D, GroupAt(A, g, m) PROVE m \in Members(B)
  <2>1. Stays(A, D, g) /\ A[g].kind = "open"
    BY <1>4 DEF Stays, GroupAt, Directive
  <2> QED
    BY <1>1, <1>2, <1>4, <2>1, MembersAre
<1> QED
  BY <1>3, <1>4

\* Texts with the same directives have the same groups.
LEMMA SlideSame ==
    ASSUME NEW A, NEW B, IsSeq(A), IsSeq(B), NoNesting(A), UniqueIds(A),
           NEW p, Slides(A, B, {}, p)
    PROVE  Members(B) = Members(A)
<1>1. Drops(A, {}, 0)
  BY DEF Drops
<1>2. \A m : m \in Members(B) <=> \E g \in 1..Len(A) : GroupAt(A, g, m)
  BY <1>1, SlideMembers
<1>3. \A m : m \in Members(A) <=> \E g \in 1..Len(A) : GroupAt(A, g, m)
  BY MembersAre
<1> QED
  BY <1>2, <1>3

\* The same lines but for what tells no group from another.
LEMMA SlideInPlace ==
    ASSUME NEW A, NEW B, Len(A) \in Nat, Len(B) = Len(A),
           \A i \in 1..Len(A) : B[i].kind = A[i].kind /\ (Directive(A[i]) => SameDirective(A[i], B[i]))
    PROVE  \E p : Slides(A, B, {}, p)
<1> DEFINE p == [i \in 1..Len(A) |-> i]
<1>1. \A i : Stays(A, {}, i) => i \in 1..Len(A) /\ p[i] = i /\ Directive(A[i])
  BY DEF Stays
<1>2. \A j \in 1..Len(A) : Directive(B[j]) => Stays(A, {}, j) /\ p[j] = j
  BY DEF Stays, Directive
<1> HIDE DEF p
<1>3. Slides(A, B, {}, p)
  BY <1>1, <1>2 DEF Slides
<1> QED
  BY <1>3

\* A line replaced by one that says the same directive leaves the groups.
LEMMA PatchMembers ==
    ASSUME NEW L, IsSeq(L), NoNesting(L), UniqueIds(L), NEW at \in 1..Len(L), NEW x,
           x.kind = L[at].kind, SameDirective(L[at], x)
    PROVE  Members(Patched(L, at, x)) = Members(L)
<1> DEFINE N == Patched(L, at, x)
<1>1. /\ IsSeq(N) /\ Len(N) = Len(L) /\ N[at] = x /\ Len(L) \in Nat
      /\ \A i \in 1..Len(L) : i # at => N[i] = L[i]
  BY PatchedFacts, SeqDomain
<1> HIDE DEF N
<1>2. \A i \in 1..Len(L) : N[i].kind = L[i].kind /\ (Directive(L[i]) => SameDirective(L[i], N[i]))
  BY <1>1 DEF SameDirective
<1>3. \E p : Slides(L, N, {}, p)
  BY <1>1, <1>2, SlideInPlace
<1> QED
  BY <1>1, <1>3, SlideSame DEF N

\* A rename leaves every group with its atoms.
LEMMA NameMembers ==
    ASSUME NEW L, IsSeq(L), NoNesting(L), UniqueIds(L), NEW id, NEW given, NEW N,
           SetAtomSlug(L, id, given) = Rewritten(N) \/ SetGroupSlug(L, id, given) = Rewritten(N)
    PROVE  Members(N) = Members(L)
<1>1. CASE SetAtomSlug(L, id, given) = Rewritten(N)
  <2>1. PICK at \in 1..Len(L) : IsAtom(L[at], id) /\ N = Patched(L, at, AtomTag(Renamed(L[at].attrs, given)))
    BY <1>1, AtomNameIs
  <2> DEFINE x == AtomTag(Renamed(L[at].attrs, given))
  <2>2. SameDirective(L[at], x) /\ x.kind = L[at].kind
    BY <2>1, RenamedFacts DEF SameDirective, AtomTag, HasAttr, IsAtom
  <2> HIDE DEF x
  <2> QED
    BY <2>1, <2>2, PatchMembers DEF x
<1>2. CASE SetGroupSlug(L, id, given) = Rewritten(N)
  <2>1. PICK at \in 1..Len(L) : IsOpen(L[at], id) /\ N = Patched(L, at, Open(Renamed(L[at].attrs, given)))
    BY <1>2, GroupNameIs
  <2> DEFINE x == Open(Renamed(L[at].attrs, given))
  <2>2. SameDirective(L[at], x) /\ x.kind = L[at].kind
    BY <2>1, RenamedFacts DEF SameDirective, Open, HasAttr, IsOpen
  <2> HIDE DEF x
  <2> QED
    BY <2>1, <2>2, PatchMembers DEF x
<1> QED
  BY <1>1, <1>2

\* An edit of attributes leaves every group with its atoms.
LEMMA AttrsMembers ==
    ASSUME NEW L, IsSeq(L), NoNesting(L), UniqueIds(L), NEW id, NEW sent, NEW N,
           SaveAttrs(L, id, sent) = Rewritten(N)
    PROVE  Members(N) = Members(L)
<1>1. PICK at \in 1..Len(L) : IsAtom(L[at], id) /\ N = Patched(L, at, AtomTag(Saved(id, sent)))
  BY SaveIs
<1> DEFINE x == AtomTag(Saved(id, sent))
<1>2. SameDirective(L[at], x) /\ x.kind = L[at].kind
  BY <1>1, SavedFacts DEF SameDirective, AtomTag, HasAttr, IsAtom
<1> HIDE DEF x
<1> QED
  BY <1>1, <1>2, PatchMembers DEF x

\* A review leaves every group with its atoms.
LEMMA ReviewMembers ==
    ASSUME NEW L, IsSeq(L), NoNesting(L), UniqueIds(L), NEW entries, NEW N,
           SetAtomDigests(L, entries) = Rewritten(N)
    PROVE  Members(N) = Members(L)
<1>1. IsSeq(N) /\ Len(N) = Len(L) /\ \A i \in 1..Len(L) : N[i] = Stamped(L[i], entries)
  BY ReviewIs
<1>2. \A i \in 1..Len(L) : N[i].kind = L[i].kind /\ (Directive(L[i]) => SameDirective(L[i], N[i]))
  <2> SUFFICES ASSUME NEW i \in 1..Len(L)
               PROVE  N[i].kind = L[i].kind /\ SameDirective(L[i], N[i])
    OBVIOUS
  <2>1. /\ N[i].kind = L[i].kind
        /\ N[i].kind # "atom" => N[i] = L[i]
        /\ N[i].kind = "atom" => (HasAttr(N[i], "id") <=> HasAttr(L[i], "id"))
        /\ (N[i].kind = "atom" /\ HasAttr(L[i], "id")) => N[i].attrs["id"] = L[i].attrs["id"]
    BY <1>1, StampedFacts
  <2> QED
    BY <2>1 DEF SameDirective
<1>3. Len(L) \in Nat
  BY SeqDomain
<1>4. \E p : Slides(L, N, {}, p)
  BY <1>1, <1>2, <1>3, SlideInPlace
<1> QED
  BY <1>1, <1>4, SlideSame

\* Only directives matter.
LEMMA SlideLess ==
    ASSUME NEW A, NEW B, NEW D, NEW p, Slides(A, B, D, p), NEW E,
           \A i \in 1..Len(A) : Directive(A[i]) => (i \in D <=> i \in E)
    PROVE  Slides(A, B, E, p)
<1>1. \A i : Stays(A, D, i) <=> Stays(A, E, i)
  BY DEF Stays
<1> QED
  BY <1>1 DEF Slides

\* Lines taken away in two steps are lines taken away.
LEMMA SlideMore ==
    ASSUME NEW A, NEW B, NEW C, NEW D, NEW E, NEW p, NEW q, Len(A) \in Nat,
           Slides(A, B, D, p), Slides(B, C, E, q)
    PROVE  Slides(A, C, D \cup {i \in 1..Len(A) : p[i] \in E}, [i \in 1..Len(A) |-> q[p[i]]])
<1> DEFINE F == D \cup {i \in 1..Len(A) : p[i] \in E}
           r == [i \in 1..Len(A) |-> q[p[i]]]
<1>1. ASSUME NEW i, Stays(A, F, i)
      PROVE  /\ Stays(A, D, i) /\ Stays(B, E, p[i]) /\ r[i] = q[p[i]]
             /\ SameDirective(A[i], B[p[i]])
  <2>1. i \in 1..Len(A) /\ Directive(A[i]) /\ i \notin D /\ p[i] \notin E
    BY <1>1 DEF Stays
  <2>2. Stays(A, D, i)
    BY <2>1 DEF Stays
  <2>3. p[i] \in 1..Len(B) /\ SameDirective(A[i], B[p[i]])
    BY <2>2 DEF Slides
  <2>4. Directive(B[p[i]])
    BY <2>1, <2>3 DEF SameDirective, Directive
  <2> QED
    BY <2>1, <2>2, <2>3, <2>4 DEF Stays
<1>2. ASSUME NEW i, Stays(A, F, i)
      PROVE  r[i] \in 1..Len(C) /\ SameDirective(A[i], C[r[i]])
  <2>1. Stays(B, E, p[i]) /\ r[i] = q[p[i]] /\ SameDirective(A[i], B[p[i]])
    BY <1>1, <1>2
  <2>2. q[p[i]] \in 1..Len(C) /\ SameDirective(B[p[i]], C[q[p[i]]])
    BY <2>1 DEF Slides
  <2>3. SameDirective(A[i], C[q[p[i]]])
    BY <2>1, <2>2 DEF SameDirective
  <2> HIDE DEF r
  <2> QED
    BY <2>1, <2>2, <2>3
<1>3. ASSUME NEW i, NEW k, Stays(A, F, i), Stays(A, F, k), i < k PROVE r[i] < r[k]
  <2>1. Stays(A, D, i) /\ Stays(B, E, p[i]) /\ r[i] = q[p[i]]
    BY <1>1, <1>3
  <2>2. Stays(A, D, k) /\ Stays(B, E, p[k]) /\ r[k] = q[p[k]]
    BY <1>1, <1>3
  <2>3. p[i] < p[k]
    BY <1>3, <2>1, <2>2 DEF Slides
  <2> HIDE DEF r
  <2> QED
    BY <2>1, <2>2, <2>3 DEF Slides
<1>4. ASSUME NEW j \in 1..Len(C), Directive(C[j]) PROVE \E i : Stays(A, F, i) /\ r[i] = j
  <2>1. PICK k : Stays(B, E, k) /\ q[k] = j
    BY <1>4 DEF Slides
  <2>2. k \in 1..Len(B) /\ Directive(B[k]) /\ k \notin E
    BY <2>1 DEF Stays
  <2>3. PICK i : Stays(A, D, i) /\ p[i] = k
    BY <2>2 DEF Slides
  <2>4. Stays(A, F, i) /\ r[i] = j
    BY <2>1, <2>2, <2>3 DEF Stays
  <2> HIDE DEF r, F
  <2> QED
    BY <2>4
<1> HIDE DEF r, F
<1>5. Slides(A, C, F, r)
  BY <1>2, <1>3, <1>4 DEF Slides
<1> QED
  BY <1>5 DEF r, F

\* A line is the same directive as itself.
LEMMA DirectiveSame == \A l : SameDirective(l, l)
BY DEF SameDirective

\* Where p follows the lines of s when the line x is taken out.
Below(s, x) == [i \in 1..Len(s) |-> IF i < x THEN i ELSE i - 1]

\* A removed line shifts those below it.
LEMMA SlideCut ==
    ASSUME NEW s, IsSeq(s), NEW x \in 1..Len(s)
    PROVE  Slides(s, RemoveAt(s, x), {x}, Below(s, x))
<1> DEFINE t == RemoveAt(s, x)
           p == Below(s, x)
<1>1. /\ Len(s) \in Nat /\ IsSeq(t) /\ Len(t) = Len(s) - 1
      /\ \A i \in 1..(x - 1) : t[i] = s[i]
      /\ \A i \in x..(Len(s) - 1) : t[i] = s[i + 1]
  BY SeqDomain, Removed
<1>2. \A i \in 1..Len(s) : p[i] = IF i < x THEN i ELSE i - 1
  BY DEF Below
<1> HIDE DEF t, p
<1>3. ASSUME NEW i, Stays(s, {x}, i) PROVE p[i] \in 1..Len(t) /\ SameDirective(s[i], t[p[i]])
  <2>1. i \in 1..Len(s) /\ i # x
    BY <1>3 DEF Stays
  <2>2. CASE i < x
    <3>1. p[i] = i /\ i \in 1..(x - 1) /\ i \in 1..Len(t)
      BY <1>1, <1>2, <2>1, <2>2
    <3> QED
      BY <1>1, <3>1, DirectiveSame
  <2>3. CASE ~(i < x)
    <3>1. p[i] = i - 1 /\ i - 1 \in x..(Len(s) - 1) /\ i - 1 \in 1..Len(t) /\ (i - 1) + 1 = i
      BY <1>1, <1>2, <2>1, <2>3
    <3>2. t[i - 1] = s[i]
      BY <1>1, <3>1
    <3> QED
      BY <3>1, <3>2, DirectiveSame
  <2> QED
    BY <2>2, <2>3
<1>4. ASSUME NEW i, NEW k, Stays(s, {x}, i), Stays(s, {x}, k), i < k PROVE p[i] < p[k]
  <2>1. i \in 1..Len(s) /\ k \in 1..Len(s) /\ i # x /\ k # x
    BY <1>4 DEF Stays
  <2> QED
    BY <1>2, <1>4, <2>1
<1>5. ASSUME NEW j \in 1..Len(t), Directive(t[j]) PROVE \E i : Stays(s, {x}, i) /\ p[i] = j
  <2>1. CASE j < x
    <3>1. j \in 1..(x - 1) /\ j \in 1..Len(s) /\ j # x /\ p[j] = j
      BY <1>1, <1>2, <2>1
    <3> QED
      BY <1>1, <1>5, <3>1 DEF Stays
  <2>2. CASE ~(j < x)
    <3>1. j \in x..(Len(s) - 1) /\ j + 1 \in 1..Len(s) /\ j + 1 # x /\ p[j + 1] = j
      BY <1>1, <1>2, <2>2
    <3> QED
      BY <1>1, <1>5, <3>1 DEF Stays
  <2> QED
    BY <2>1, <2>2
<1>6. Slides(s, t, {x}, p)
  BY <1>3, <1>4, <1>5 DEF Slides
<1> QED
  BY <1>6 DEF t, p

\* A cut that takes out a blank line as well moves the directives as one that does not.
LEMMA SlideCollapse ==
    ASSUME NEW s, IsSeq(s), NEW x \in 1..Len(s)
    PROVE  /\ IsSeq(RemoveLineCollapsingSeam(s, x))
           /\ \E p : /\ Slides(s, RemoveLineCollapsingSeam(s, x), {x}, p)
                     /\ \A i \in 1..(x - 1) : p[i] = i
<1> DEFINE t == RemoveAt(s, x)
           n == RemoveLineCollapsingSeam(s, x)
<1>1. /\ IsSeq(t) /\ Len(t) = Len(s) - 1 /\ Len(t) \in Nat /\ Len(s) \in Nat
      /\ \A i \in x..(Len(s) - 1) : t[i] = s[i + 1]
  BY Removed, CollapseIs, SeqDomain
<1>2. Slides(s, t, {x}, Below(s, x)) /\ \A i \in 1..(x - 1) : Below(s, x)[i] = i
  <2>1. \A i \in 1..(x - 1) : Below(s, x)[i] = i
    BY <1>1 DEF Below
  <2> QED
    BY <2>1, SlideCut
<1>3. CASE n = t
  BY <1>1, <1>2, <1>3
<1>4. CASE n # t
  <2>1. n = RemoveAt(t, x) /\ x \in 1..Len(t) /\ IsBlank(t[x])
    BY <1>4, CollapseIs
  <2>2. IsSeq(n)
    BY <1>1, <2>1, Removed
  <2>3. Slides(t, n, {x}, Below(t, x))
    BY <1>1, <2>1, SlideCut
  <2> DEFINE E == {x} \cup {i \in 1..Len(s) : Below(s, x)[i] \in {x}}
             p == [i \in 1..Len(s) |-> Below(t, x)[Below(s, x)[i]]]
  <2> HIDE DEF t, n
  <2>4. Slides(s, n, E, p)
    BY <1>1, <1>2, <2>3, SlideMore
  <2>5. ASSUME NEW i \in 1..Len(s), Directive(s[i]) PROVE i \in E <=> i \in {x}
    <3>1. Below(s, x)[i] = IF i < x THEN i ELSE i - 1
      BY DEF Below
    <3>2. Below(s, x)[i] = x => i = x + 1
      BY <3>1
    <3>3. i # x + 1
      <4>1. i = x + 1 => s[i] = t[x]
        BY <1>1, <2>1
      <4> QED
        BY <2>1, <2>5, <4>1 DEF IsBlank, Directive
    <3> QED
      BY <3>2, <3>3
  <2>6. \A i \in 1..(x - 1) : p[i] = i
    <3> SUFFICES ASSUME NEW i \in 1..(x - 1) PROVE p[i] = i
      OBVIOUS
    <3>1. i \in 1..Len(s) /\ i \in 1..Len(t) /\ i < x
      BY <1>1, <2>1
    <3>2. Below(s, x)[i] = i /\ Below(t, x)[i] = i
      BY <3>1 DEF Below
    <3> QED
      BY <3>1, <3>2
  <2> HIDE DEF E, p
  <2>7. Slides(s, n, {x}, p)
    BY <2>4, <2>5, SlideLess
  <2> QED
    BY <2>2, <2>6, <2>7 DEF n
<1> QED
  BY <1>3, <1>4

\* An edit of one atom's text leaves every group with its atoms.
LEMMA BlockMembers ==
    ASSUME NEW L, IsSeq(L), NoNesting(L), UniqueIds(L), NEW id, NEW page, IsSeq(page),
           NEW N, IsSeq(N), ReplaceAtomBlock(L, id, page) = Rewritten(N)
    PROVE  Members(N) = Members(L)
<1> DEFINE b == Trimmed(page)
<1>1. PICK at \in 1..Len(L) :
             /\ IsAtom(L[at], id)
             /\ N = Rebuilt(L, at, b)
             /\ \A k \in 1..Len(b) : ~LooksLikeDirectiveLine(b[k])
  BY BlockIs
<1>2. IsSeq(b) /\ Len(b) \in Nat /\ Len(L) \in Nat
  BY TrimmedFacts, SeqDomain
<1> HIDE DEF b
<1> DEFINE e == UnitEnd(L, at)
<1>3. L[at].kind # "open"
  BY <1>1 DEF IsAtom
<1>4. e \in at..Len(L) /\ \A k \in (at + 1)..e : ~IsBoundary(L[k])
  BY <1>3, PlainEnd
<1>5. /\ Len(N) = Len(L) - (e - at) + Len(b)
      /\ \A i \in 1..at : N[i] = L[i]
      /\ \A i \in 1..Len(b) : N[at + i] = b[i]
      /\ \A i \in 1..(Len(L) - e) : N[at + Len(b) + i] = L[e + i]
  <2>1. Spliced(L, at, e, b, N)
    BY <1>1, <1>2, RebuiltFacts
  <2> QED
    BY <2>1 DEF Spliced
<1> HIDE DEF e
<1> DEFINE p == [i \in 1..Len(L) |-> IF i <= at THEN i ELSE at + Len(b) + (i - e)]
<1>6. \A i \in 1..Len(L) : p[i] = IF i <= at THEN i ELSE at + Len(b) + (i - e)
  OBVIOUS
<1> HIDE DEF p
<1>7. ASSUME NEW i, Stays(L, {}, i) PROVE i \in 1..Len(L) /\ (i <= at \/ e < i)
  <2>1. i \in 1..Len(L) /\ Directive(L[i])
    BY <1>7 DEF Stays
  <2>2. i \notin (at + 1)..e
    BY <1>4, <2>1 DEF IsBoundary, LooksLikeDirectiveLine, Directive
  <2> QED
    BY <1>2, <1>4, <2>1, <2>2
<1>8. ASSUME NEW i, Stays(L, {}, i) PROVE p[i] \in 1..Len(N) /\ SameDirective(L[i], N[p[i]])
  <2>1. i \in 1..Len(L) /\ (i <= at \/ e < i)
    BY <1>7, <1>8
  <2>2. CASE i <= at
    <3>1. i \in 1..at /\ i \in 1..Len(N) /\ p[i] = i
      BY <1>2, <1>4, <1>5, <1>6, <2>1, <2>2
    <3> QED
      BY <1>5, <3>1, DirectiveSame
  <2>3. CASE e < i
    <3>1. /\ i - e \in 1..(Len(L) - e) /\ e + (i - e) = i
          /\ at + Len(b) + (i - e) \in 1..Len(N) /\ p[i] = at + Len(b) + (i - e)
      BY <1>2, <1>4, <1>5, <1>6, <2>1, <2>3
    <3>2. N[p[i]] = L[i]
      BY <1>5, <3>1
    <3> QED
      BY <3>1, <3>2, DirectiveSame
  <2> QED
    BY <2>1, <2>2, <2>3
<1>9. ASSUME NEW i, NEW k, Stays(L, {}, i), Stays(L, {}, k), i < k PROVE p[i] < p[k]
  <2>1. i \in 1..Len(L) /\ (i <= at \/ e < i)
    BY <1>7, <1>9
  <2>2. k \in 1..Len(L) /\ (k <= at \/ e < k)
    BY <1>7, <1>9
  <2> QED
    BY <1>2, <1>4, <1>6, <1>9, <2>1, <2>2
<1>10. ASSUME NEW j \in 1..Len(N), Directive(N[j]) PROVE \E i : Stays(L, {}, i) /\ p[i] = j
  <2>1. CASE j <= at
    <3>1. j \in 1..at /\ j \in 1..Len(L) /\ p[j] = j
      BY <1>2, <1>4, <1>5, <1>6, <2>1
    <3> QED
      BY <1>5, <1>10, <3>1 DEF Stays
  <2>2. CASE at + Len(b) < j
    <3> DEFINE k == j - (at + Len(b))
               i == e + k
    <3>1. k \in 1..(Len(L) - e) /\ at + Len(b) + k = j /\ i \in 1..Len(L) /\ p[i] = j /\ i = e + k
      <4>1. k \in Nat /\ at \in Nat /\ e \in Nat /\ j \in Nat /\ at <= e
        BY <1>2, <1>4, <1>5, <2>2
      <4>2. k \in 1..(Len(L) - e) /\ at + Len(b) + k = j
        BY <1>2, <1>4, <1>5, <2>2, <4>1
      <4>3. i \in 1..Len(L) /\ ~(i <= at) /\ i - e = k
        <5> HIDE DEF k
        <5> QED
          BY <1>2, <4>1, <4>2
      <4>4. p[i] = at + Len(b) + (i - e)
        <5> HIDE DEF i
        <5> QED
          BY <1>6, <4>3
      <4> HIDE DEF k
      <4> QED
        BY <4>2, <4>3, <4>4
    <3> HIDE DEF k, i
    <3>2. N[j] = L[i]
      BY <1>5, <3>1
    <3>3. Stays(L, {}, i)
      BY <1>10, <3>1, <3>2 DEF Stays
    <3> QED
      BY <3>1, <3>3
  <2>3. CASE at < j /\ j <= at + Len(b)
    <3>1. j - at \in 1..Len(b) /\ at + (j - at) = j
      BY <1>2, <1>4, <1>5, <2>3
    <3>2. N[j] = b[j - at]
      BY <1>5, <3>1
    <3> QED
      BY <1>1, <1>10, <3>1, <3>2 DEF LooksLikeDirectiveLine, Directive
  <2> QED
    BY <1>2, <1>4, <1>5, <2>1, <2>2, <2>3
<1>11. Slides(L, N, {}, p)
  BY <1>8, <1>9, <1>10 DEF Slides
<1> QED
  BY <1>11, SlideSame

\* An ungrouping takes away the group it names.
LEMMA UngroupMembers ==
    ASSUME NEW L, IsSeq(L), Paired(L), UniqueIds(L), NEW key, IsGroupKey(key), ~GroupFault(L, key),
           NEW N, RemoveGroupMarkers(L, key) = Rewritten(N)
    PROVE  Members(N) = {m \in Members(L) : m[1] # key}
<1>1. PICK o \in 1..Len(L) : \E c \in (o + 1)..Len(L) :
             /\ L[o].kind = "open" /\ L[c].kind = "close"
             /\ \A k \in (o + 1)..(c - 1) : ~IsMarker(L[k])
             /\ HasAttr(L[o], "id") /\ key = <<"group", L[o].attrs["id"]>>
             /\ N = RemoveLineCollapsingSeam(RemoveLineCollapsingSeam(L, c), o)
  BY UngroupMarkers
<1>2. PICK c \in (o + 1)..Len(L) :
             /\ L[o].kind = "open" /\ L[c].kind = "close"
             /\ \A k \in (o + 1)..(c - 1) : ~IsMarker(L[k])
             /\ HasAttr(L[o], "id") /\ key = <<"group", L[o].attrs["id"]>>
             /\ N = RemoveLineCollapsingSeam(RemoveLineCollapsingSeam(L, c), o)
  BY <1>1
<1>3. c \in 1..Len(L) /\ o < c /\ o \in 1..(c - 1) /\ Len(L) \in Nat
  <2>1. Len(L) \in Nat
    BY SeqDomain
  <2> QED
    BY <1>2, <2>1
<1> DEFINE M == RemoveLineCollapsingSeam(L, c)
<1>4. IsSeq(M) /\ \E p : Slides(L, M, {c}, p) /\ \A i \in 1..(c - 1) : p[i] = i
  BY <1>3, SlideCollapse
<1>5. PICK p : Slides(L, M, {c}, p) /\ p[o] = o
  BY <1>3, <1>4
<1>6. Stays(L, {c}, o)
  BY <1>2, <1>3 DEF Stays, Directive
<1>7. o \in 1..Len(M)
  BY <1>5, <1>6 DEF Slides
<1> HIDE DEF M
<1>8. IsSeq(N) /\ \E q : Slides(M, N, {o}, q)
  <2>1. N = RemoveLineCollapsingSeam(M, o)
    BY <1>2 DEF M
  <2> QED
    BY <1>4, <1>7, <2>1, SlideCollapse
<1>9. PICK q : Slides(M, N, {o}, q)
  BY <1>8
<1> DEFINE E == {c} \cup {i \in 1..Len(L) : p[i] \in {o}}
           r == [i \in 1..Len(L) |-> q[p[i]]]
<1>10. Slides(L, N, E, r)
  BY <1>3, <1>5, <1>9, SlideMore
<1>11. ASSUME NEW i \in 1..Len(L), Directive(L[i]) PROVE i \in E <=> i \in {o, c}
  <2>1. CASE i = c
    BY <2>1
  <2>2. CASE i # c
    <3>1. Stays(L, {c}, i)
      BY <1>11, <2>2 DEF Stays
    <3>2. p[i] = p[o] => i = o
      <4>1. Slides(L, M, {c}, p)
        BY <1>5
      <4>2. (i < o => p[i] < p[o]) /\ (o < i => p[o] < p[i]) /\ p[i] \in 1..Len(M)
        BY <1>6, <3>1, <4>1 DEF Slides
      <4>3. i \in Nat /\ o \in Nat
        BY <1>3
      <4> QED
        BY <1>5, <4>2, <4>3
    <3> QED
      BY <1>5, <2>2, <3>2
  <2> QED
    BY <2>1, <2>2
<1> HIDE DEF E, r
<1>12. Slides(L, N, {o, c}, r)
  BY <1>10, <1>11, SlideLess
<1>13. Drops(L, {o, c}, o)
  BY <1>2 DEF Drops
<1>14. NoNesting(L)
  BY PairsDoNotNest
<1>15. ASSUME NEW g \in 1..Len(L), L[g].kind = "open"
       PROVE  g \notin {o, c} <=> GroupName(L[g]) # key
  <2>1. g # c
    BY <1>2, <1>15
  <2>2. CASE g = o
    BY <1>2, <2>2 DEF GroupName
  <2>3. CASE g # o
    <3>1. g \in Carriers(L) /\ o \in Carriers(L)
      BY <1>2, <1>15, SeqDomain DEF Carriers
    <3>2. HasAttr(L[g], "id") => L[g].attrs["id"] # L[o].attrs["id"]
      BY <1>2, <2>3, <3>1 DEF UniqueIds
    <3>3. HasAttr(L[g], "id") => <<"group", L[g].attrs["id"]>> # <<"group", L[o].attrs["id"]>>
      BY <3>2
    <3>4. <<"faulted">> # <<"group", L[o].attrs["id"]>>
      OBVIOUS
    <3> QED
      BY <1>2, <2>1, <2>3, <3>3, <3>4 DEF GroupName
  <2> QED
    BY <2>2, <2>3
<1>16. ASSUME NEW m PROVE m \in Members(N) <=> m \in Members(L) /\ m[1] # key
  <2>1. m \in Members(N) <=> \E g \in 1..Len(L) : g \notin {o, c} /\ GroupAt(L, g, m)
    BY <1>8, <1>12, <1>13, <1>14, SlideMembers
  <2>2. m \in Members(L) <=> \E g \in 1..Len(L) : GroupAt(L, g, m)
    BY <1>14, MembersAre
  <2>3. \A g \in 1..Len(L) : GroupAt(L, g, m) => (g \notin {o, c} <=> m[1] # key)
    BY <1>15 DEF GroupAt
  <2> QED
    BY <2>1, <2>2, <2>3
<1> QED
  BY <1>16

\* A text and the text with a group made of its lines f to t, which hold no marker.
Grouped(L, f, t, attrs, N) ==
    /\ IsSeq(L) /\ IsSeq(N) /\ Len(L) \in Nat /\ Len(N) = Len(L) + 2
    /\ f \in 1..Len(L) /\ t \in f..Len(L)
    /\ \A i \in 1..(f - 1) : N[i] = L[i]
    /\ N[f] = Open(attrs)
    /\ \A i \in (f + 1)..(t + 1) : N[i] = L[i - 1]
    /\ N[t + 2] = Close
    /\ \A i \in (t + 3)..(Len(L) + 2) : N[i] = L[i - 2]
    /\ \A k \in f..t : ~IsMarker(L[k])
    /\ GroupLine(L, f) = 0

\* Where the lines of the text with the group are in the one without.
Above(N, f, t) ==
    [i \in 1..Len(N) |-> IF i < f THEN i ELSE IF i < t + 2 THEN i - 1 ELSE i - 2]

\* Each line but the two markers is a line of the text without the group.
LEMMA AboveIs ==
    ASSUME NEW L, NEW f, NEW t, NEW attrs, NEW N, Grouped(L, f, t, attrs, N),
           NEW i \in 1..Len(N), i # f, i # t + 2
    PROVE  /\ Above(N, f, t)[i] \in 1..Len(L) /\ N[i] = L[Above(N, f, t)[i]]
           /\ Above(N, f, t)[i] = IF i < f THEN i ELSE IF i < t + 2 THEN i - 1 ELSE i - 2
<1>1. /\ Len(L) \in Nat /\ Len(N) = Len(L) + 2 /\ f \in 1..Len(L) /\ t \in f..Len(L)
      /\ \A k \in 1..(f - 1) : N[k] = L[k]
      /\ \A k \in (f + 1)..(t + 1) : N[k] = L[k - 1]
      /\ \A k \in (t + 3)..(Len(L) + 2) : N[k] = L[k - 2]
  BY DEF Grouped
<1>2. Above(N, f, t)[i] = IF i < f THEN i ELSE IF i < t + 2 THEN i - 1 ELSE i - 2
  BY DEF Above
<1>3. CASE i < f
  <2>1. i \in 1..(f - 1) /\ i \in 1..Len(L)
    BY <1>1, <1>3
  <2> QED
    BY <1>1, <1>2, <1>3, <2>1
<1>4. CASE f < i /\ i < t + 2
  <2>1. i \in (f + 1)..(t + 1) /\ i - 1 \in 1..Len(L) /\ ~(i < f)
    BY <1>1, <1>4
  <2> QED
    BY <1>1, <1>2, <1>4, <2>1
<1>5. CASE t + 2 < i
  <2>1. i \in (t + 3)..(Len(L) + 2) /\ i - 2 \in 1..Len(L) /\ ~(i < f) /\ ~(i < t + 2)
    BY <1>1, <1>5
  <2> QED
    BY <1>1, <1>2, <2>1
<1>6. i < f \/ (f < i /\ i < t + 2) \/ t + 2 < i
  BY <1>1
<1> QED
  BY <1>3, <1>4, <1>5, <1>6

\* The text without the group has the same directives, but for the two
\* markers.
LEMMA GroupedSlides ==
    ASSUME NEW L, NEW f, NEW t, NEW attrs, NEW N, Grouped(L, f, t, attrs, N)
    PROVE  Slides(N, L, {f, t + 2}, Above(N, f, t)) /\ Drops(N, {f, t + 2}, f)
<1> DEFINE p == Above(N, f, t)
<1>1. /\ Len(L) \in Nat /\ Len(N) = Len(L) + 2 /\ f \in 1..Len(L) /\ t \in f..Len(L)
      /\ N[f].kind = "open" /\ N[t + 2].kind = "close"
  BY DEF Grouped, Open, Close
<1>2. ASSUME NEW i, Stays(N, {f, t + 2}, i)
      PROVE  /\ i \in 1..Len(N) /\ p[i] \in 1..Len(L) /\ N[i] = L[p[i]]
             /\ p[i] = IF i < f THEN i ELSE IF i < t + 2 THEN i - 1 ELSE i - 2
             /\ i # f /\ i # t + 2
  <2>1. i \in 1..Len(N) /\ i # f /\ i # t + 2
    BY <1>2 DEF Stays
  <2> QED
    BY <2>1, AboveIs
<1>3. ASSUME NEW j \in 1..Len(L)
      PROVE  \E i \in 1..Len(N) : i # f /\ i # t + 2 /\ p[i] = j
  <2>1. CASE j < f
    <3>1. j \in 1..Len(N) /\ j # f /\ j # t + 2
      BY <1>1, <2>1
    <3>2. p[j] = j
      BY <2>1, <3>1, AboveIs
    <3> QED
      BY <3>1, <3>2
  <2>2. CASE f <= j /\ j <= t
    <3>1. j + 1 \in 1..Len(N) /\ j + 1 # f /\ j + 1 # t + 2 /\ ~(j + 1 < f) /\ j + 1 < t + 2
      BY <1>1, <2>2
    <3>2. p[j + 1] = (j + 1) - 1
      BY <3>1, AboveIs
    <3> QED
      BY <3>1, <3>2
  <2>3. CASE t < j
    <3>1. j + 2 \in 1..Len(N) /\ j + 2 # f /\ j + 2 # t + 2 /\ ~(j + 2 < f) /\ ~(j + 2 < t + 2)
      BY <1>1, <2>3
    <3>2. p[j + 2] = (j + 2) - 2
      BY <3>1, AboveIs
    <3> QED
      BY <3>1, <3>2
  <2> QED
    BY <1>1, <2>1, <2>2, <2>3
<1> HIDE DEF p
<1>4. ASSUME NEW i, NEW k, Stays(N, {f, t + 2}, i), Stays(N, {f, t + 2}, k), i < k
      PROVE  p[i] < p[k]
  <2>1. /\ i \in 1..Len(N) /\ i # f /\ i # t + 2
        /\ p[i] = IF i < f THEN i ELSE IF i < t + 2 THEN i - 1 ELSE i - 2
    BY <1>2, <1>4
  <2>2. /\ k \in 1..Len(N) /\ k # f /\ k # t + 2
        /\ p[k] = IF k < f THEN k ELSE IF k < t + 2 THEN k - 1 ELSE k - 2
    BY <1>2, <1>4
  <2> QED
    BY <1>1, <1>4, <2>1, <2>2
<1>5. ASSUME NEW j \in 1..Len(L), Directive(L[j]) PROVE \E i : Stays(N, {f, t + 2}, i) /\ p[i] = j
  <2>1. PICK i \in 1..Len(N) : i # f /\ i # t + 2 /\ p[i] = j
    BY <1>3
  <2>2. N[i] = L[j]
    BY <2>1, AboveIs DEF p
  <2> QED
    BY <1>5, <2>1, <2>2 DEF Stays
<1>6. Slides(N, L, {f, t + 2}, p)
  BY <1>2, <1>4, <1>5, DirectiveSame DEF Slides
<1>7. Drops(N, {f, t + 2}, f)
  <2>1. t + 2 \in (f + 1)..Len(N) /\ f \in 1..Len(N)
    BY <1>1
  <2>2. \A k \in (f + 1)..((t + 2) - 1) : ~IsMarker(N[k])
    <3> SUFFICES ASSUME NEW k \in (f + 1)..((t + 2) - 1) PROVE ~IsMarker(N[k])
      OBVIOUS
    <3>1. k \in (f + 1)..(t + 1) /\ k - 1 \in f..t
      BY <1>1
    <3> QED
      BY <3>1 DEF Grouped
  <2> QED
    BY <1>1, <2>1, <2>2 DEF Drops
<1> QED
  BY <1>6, <1>7 DEF p

\* Where no group was opened inside of one, none is with the new group.
LEMMA GroupedNesting ==
    ASSUME NEW L, NEW f, NEW t, NEW attrs, NEW N, Grouped(L, f, t, attrs, N), NoNesting(L)
    PROVE  NoNesting(N)
<1>1. /\ Len(L) \in Nat /\ Len(N) = Len(L) + 2 /\ f \in 1..Len(L) /\ t \in f..Len(L)
      /\ N[t + 2].kind = "close" /\ IsSeq(L) /\ IsSeq(N) /\ f \in Nat /\ t \in Nat
  BY DEF Grouped, Close
<1>2. \A i \in 1..f : GroupLine(N, i) = GroupLine(L, i)
  <2> SUFFICES ASSUME NEW i \in 1..f PROVE GroupLine(N, i) = GroupLine(L, i)
    OBVIOUS
  <2>1. i \in Nat /\ \A j \in 1..(i - 1) : N[j] = L[j]
    <3>1. \A j \in 1..(i - 1) : j \in 1..(f - 1)
      BY <1>1
    <3> QED
      BY <3>1 DEF Grouped
  <2> QED
    BY <2>1, GroupLineAbove
<1> SUFFICES ASSUME NEW i \in 1..Len(N), N[i].kind = "open" PROVE GroupLine(N, i) = 0
  BY DEF NoNesting
<1>3. CASE i = f
  <2>1. f \in 1..f
    BY <1>1
  <2> QED
    BY <1>2, <1>3, <2>1 DEF Grouped
<1>4. CASE i < f
  <2>1. i \in 1..f /\ i \in 1..Len(L) /\ i \in 1..(f - 1)
    BY <1>1, <1>4
  <2>2. L[i].kind = "open"
    BY <2>1 DEF Grouped
  <2> QED
    BY <1>2, <2>1, <2>2 DEF NoNesting
<1>5. CASE f < i
  <2>1. i \notin (f + 1)..(t + 1)
    <3> SUFFICES ASSUME i \in (f + 1)..(t + 1) PROVE FALSE
      OBVIOUS
    <3>1. i - 1 \in f..t
      BY <1>1
    <3> QED
      BY <3>1 DEF Grouped, IsMarker
  <2>2. t + 2 < i
    <3>1. i # t + 2
      BY <1>1
    <3> QED
      BY <1>1, <1>5, <2>1, <3>1
  <2>3. i - 2 \in 1..Len(L) /\ i \in (t + 3)..(Len(L) + 2)
    BY <1>1, <2>2
  <2>4. GroupLine(L, i - 2) = 0
    BY <2>3 DEF Grouped, NoNesting
  <2> DEFINE g == GroupLine(N, i)
  <2>5. g \in 0..(i - 1) /\ (g # 0 => N[g].kind = "open" /\ \A k \in (g + 1)..(i - 1) : ~IsMarker(N[k]))
    <3>1. i \in 1..(Len(N) + 1)
      BY <1>1
    <3> QED
      BY <1>1, <3>1, GroupLineFacts
  <2> HIDE DEF g
  <2>6. ASSUME g # 0 PROVE FALSE
    <3>1. t + 2 < g
      <4>1. t + 2 \notin (g + 1)..(i - 1)
        BY <1>1, <2>5, <2>6 DEF IsMarker
      <4>2. g # t + 2
        BY <1>1, <2>5, <2>6
      <4> QED
        BY <1>1, <2>2, <2>5, <4>1, <4>2
    <3> DEFINE h == g - 2
               j == i - 2
    <3>2. /\ h \in 1..(j - 1) /\ j \in 1..(Len(L) + 1) /\ g \in (t + 3)..(Len(L) + 2)
          /\ \A k \in (h + 1)..(j - 1) : k + 2 \in (g + 1)..(i - 1) /\ k + 2 \in (t + 3)..(Len(L) + 2) /\ (k + 2) - 2 = k
      BY <1>1, <2>2, <2>3, <2>5, <3>1
    <3>3. L[h].kind = "open"
      <4>1. N[g] = L[g - 2]
        BY <3>2 DEF Grouped
      <4> QED
        BY <2>5, <2>6, <4>1
    <3> HIDE DEF h, j
    <3>4. \A k \in (h + 1)..(j - 1) : ~IsMarker(L[k])
      <4> SUFFICES ASSUME NEW k \in (h + 1)..(j - 1) PROVE ~IsMarker(L[k])
        OBVIOUS
      <4>1. N[k + 2] = L[(k + 2) - 2]
        BY <3>2 DEF Grouped
      <4>2. ~IsMarker(N[k + 2])
        BY <2>5, <2>6, <3>2
      <4> QED
        BY <3>2, <4>1, <4>2
    <3>5. GroupLine(L, j) = h
      BY <1>1, <3>2, <3>3, <3>4, GroupLineIs
    <3>6. h # 0
      BY <3>2
    <3> QED
      BY <2>4, <3>5, <3>6 DEF j
  <2> QED
    BY <2>6 DEF g
<1> QED
  BY <1>1, <1>3, <1>4, <1>5

\* With an id that no line has, the new group leaves no id twice.
LEMMA GroupedIds ==
    ASSUME NEW L, NEW f, NEW t, NEW attrs, NEW N, Grouped(L, f, t, attrs, N), UniqueIds(L),
           "id" \in DOMAIN attrs, attrs["id"] \notin ExistingIds(L)
    PROVE  UniqueIds(N)
<1> SUFFICES ASSUME NEW i \in Carriers(N), NEW j \in Carriers(N), i # j,
                    HasAttr(N[i], "id"), HasAttr(N[j], "id"), N[i].attrs["id"] = N[j].attrs["id"]
             PROVE  FALSE
  BY DEF UniqueIds
<1> DEFINE p == Above(N, f, t)
<1>1. /\ Len(L) \in Nat /\ Len(N) = Len(L) + 2 /\ f \in 1..Len(L) /\ t \in f..Len(L)
      /\ N[f] = Open(attrs) /\ N[t + 2].kind = "close" /\ IsSeq(L) /\ IsSeq(N)
  BY DEF Grouped, Close
<1>2. N[f].attrs = attrs
  BY <1>1 DEF Open
<1>3. \A k \in Carriers(L) : HasAttr(L[k], "id") => L[k].attrs["id"] # attrs["id"]
  BY DEF ExistingIds, OpenIds
<1>4. ASSUME NEW k \in Carriers(N), k # f, HasAttr(N[k], "id")
      PROVE  p[k] \in Carriers(L) /\ N[k] = L[p[k]] /\ N[k].attrs["id"] # attrs["id"]
             /\ k \in 1..Len(N) /\ k # t + 2
  <2>1. k \in 1..Len(N) /\ k # t + 2 /\ N[k].kind \in {"atom", "open"}
    BY <1>1, SeqDomain DEF Carriers
  <2>2. p[k] \in 1..Len(L) /\ N[k] = L[p[k]]
    BY <1>4, <2>1, AboveIs
  <2>3. p[k] \in Carriers(L)
    BY <1>1, <2>1, <2>2, SeqDomain DEF Carriers
  <2> HIDE DEF p
  <2> QED
    BY <1>3, <1>4, <2>1, <2>2, <2>3
<1>5. i # f /\ j # f
  BY <1>2, <1>4
<1>6. /\ p[i] \in Carriers(L) /\ N[i] = L[p[i]] /\ i \in 1..Len(N) /\ i # t + 2
      /\ p[j] \in Carriers(L) /\ N[j] = L[p[j]] /\ j \in 1..Len(N) /\ j # t + 2
  BY <1>4, <1>5
<1>7. /\ p[i] = IF i < f THEN i ELSE IF i < t + 2 THEN i - 1 ELSE i - 2
      /\ p[j] = IF j < f THEN j ELSE IF j < t + 2 THEN j - 1 ELSE j - 2
  BY <1>5, <1>6, AboveIs
<1> HIDE DEF p
<1>8. p[i] # p[j]
  BY <1>1, <1>5, <1>6, <1>7
<1> QED
  BY <1>6, <1>8 DEF UniqueIds

\* As many keys as units that have one of them: each key is that of a unit.
LEMMA KeysAre ==
    ASSUME NEW L, IsSeq(L), UniqueIds(L), NEW keys, IsFiniteSet(keys),
           NEW a \in 1..Len(ComputeUnits(L)), NEW b \in a..Len(ComputeUnits(L)),
           Positions(ComputeUnits(L), keys) = a..b, Cardinality(keys) = b - a + 1
    PROVE  \A k : k \in keys <=> \E n \in a..b : k = ComputeUnits(L)[n].key
<1> DEFINE U == ComputeUnits(L)
           T == {U[n].key : n \in a..b}
           c == b - a + 1
           g == [j \in 1..c |-> U[a + j - 1].key]
<1>1. Len(U) \in Nat /\ DOMAIN U = 1..Len(U) /\ a \in 1..Len(U) /\ b \in a..Len(U) /\ a \in Nat /\ b \in Nat
  <2>1. Len(U) \in Nat /\ DOMAIN U = 1..Len(U)
    BY ComputeFacts
  <2> HIDE DEF U
  <2>2. a \in 1..Len(U) /\ b \in a..Len(U)
    BY DEF U
  <2> QED
    BY <2>1, <2>2
<1>2. \A m, n \in a..b : U[m].key = U[n].key => m = n
  <2> SUFFICES ASSUME NEW m \in a..b, NEW n \in a..b, U[m].key = U[n].key PROVE m = n
    OBVIOUS
  <2>1. m \in 1..Len(U) /\ n \in 1..Len(U)
    <3> HIDE DEF U
    <3> QED
      BY <1>1
  <2> QED
    BY <2>1, KeysApart
<1>3. \A n \in a..b : U[n].key \in keys
  <2>1. \A n \in a..b : n \in Positions(U, keys)
    OBVIOUS
  <2> HIDE DEF U
  <2> QED
    BY <2>1 DEF Positions
<1> HIDE DEF U
<1>4. c \in Nat
  BY <1>1
<1>5. \A j \in 1..c : g[j] \in T
  <2> SUFFICES ASSUME NEW j \in 1..c PROVE g[j] \in T
    OBVIOUS
  <2>1. a + j - 1 \in a..b
    BY <1>1
  <2> QED
    BY <2>1
<1>6. \A i, j \in 1..c : g[i] = g[j] => i = j
  <2> SUFFICES ASSUME NEW i \in 1..c, NEW j \in 1..c, g[i] = g[j] PROVE i = j
    OBVIOUS
  <2>1. a + i - 1 \in a..b /\ a + j - 1 \in a..b
    BY <1>1
  <2>2. a + i - 1 = a + j - 1
    BY <1>2, <2>1
  <2> QED
    BY <1>1, <2>2
<1>7. \A s \in T : \E j \in 1..c : g[j] = s
  <2> SUFFICES ASSUME NEW n \in a..b PROVE \E j \in 1..c : g[j] = U[n].key
    OBVIOUS
  <2>1. n - a + 1 \in 1..c /\ a + (n - a + 1) - 1 = n
    BY <1>1
  <2>2. g[n - a + 1] = U[n].key
    BY <2>1
  <2> HIDE DEF g, c
  <2> QED
    BY <2>1, <2>2
<1>8. Cardinality(T) = c
  <2> HIDE DEF T, c, g
  <2> QED
    BY <1>4, <1>5, <1>6, <1>7, CountOf
<1>9. T \in SUBSET keys
  BY <1>3
<1>10. keys = T
  <2> HIDE DEF T
  <2> QED
    BY <1>8, <1>9, FS_Subset
<1> QED
  BY <1>10 DEF U

\* The atoms that were selected, and those with ids among the lines f to t.
Selected(keys) == {k[2] : k \in {u \in keys : u[1] = "atom"}}
AtomIds(L, f, t) ==
    {L[i].attrs["id"] : i \in {j \in f..t : L[j].kind = "atom" /\ HasAttr(L[j], "id")}}
PlainUnits(L, a, b) == \A n \in a..b : ComputeUnits(L)[n].kind # "group"

\* The atoms with keys in a run of units without a group are those among its lines.
LEMMA RunAtoms ==
    ASSUME NEW L, IsSeq(L), Paired(L), UniqueIds(L), NEW keys, IsFiniteSet(keys),
           NEW a \in 1..Len(ComputeUnits(L)), NEW b \in a..Len(ComputeUnits(L)),
           PlainUnits(L, a, b),
           Positions(ComputeUnits(L), keys) = a..b, Cardinality(keys) = b - a + 1
    PROVE  Selected(keys) = AtomIds(L, First(L, a), ComputeUnits(L)[b].last)
<1> DEFINE U == ComputeUnits(L)
           f == U[a].first
           t == U[b].last
<1>0. SUFFICES ASSUME NEW x
               PROVE  (\E k \in keys : k[1] = "atom" /\ x = k[2])
                        <=> \E i \in f..t : L[i].kind = "atom" /\ HasAttr(L[i], "id") /\ x = L[i].attrs["id"]
  <2>1. \A x : x \in Selected(keys) <=> \E k \in keys : k[1] = "atom" /\ x = k[2]
    BY DEF Selected
  <2>2. \A x : x \in AtomIds(L, First(L, a), t) <=>
                 \E i \in f..t : L[i].kind = "atom" /\ HasAttr(L[i], "id") /\ x = L[i].attrs["id"]
    BY DEF AtomIds, First
  <2> DEFINE S == Selected(keys)
             T == AtomIds(L, First(L, a), t)
  <2> HIDE DEF f, U
  <2>3. (\A x : x \in S <=> x \in T) => S = T
    <3> HIDE DEF S, T
    <3> QED
      OBVIOUS
  <2> QED
    BY <2>1, <2>2, <2>3 DEF U, f
<1>1. /\ Len(U) \in Nat
      /\ \A c \in 1..Len(U) :
           /\ U[c].first \in UnitStarts(L)
           /\ U[c].first \in 1..Len(L) /\ U[c].last \in U[c].first..Len(L)
           /\ PreambleEnd(L) < U[c].first /\ U[c].last = UnitEnd(L, U[c].first)
      /\ \A c, d \in 1..Len(U) : c < d => U[c].last < U[d].first
  BY UnitLines
<1>2. a \in 1..Len(U) /\ b \in a..Len(U)
  OBVIOUS
<1>3. \A n \in a..b : n \in 1..Len(U) /\ U[n].kind # "group"
  <2>1. \A n \in a..b : U[n].kind # "group"
    BY DEF PlainUnits
  <2> HIDE DEF U
  <2> QED
    BY <1>1, <1>2, <2>1
<1>4. \A k : k \in keys <=> \E n \in a..b : k = U[n].key
  BY KeysAre
<1>5. ASSUME NEW n \in a..b
      PROVE  LET i == U[n].first IN
             /\ L[i].kind # "open"
             /\ U[n].key[1] = "atom" <=> (L[i].kind = "atom" /\ HasAttr(L[i], "id"))
             /\ U[n].key[1] = "atom" => U[n].key[2] = L[i].attrs["id"]
  <2> DEFINE i == U[n].first
  <2>1. n \in 1..Len(U) /\ U[n].kind # "group"
    BY <1>3
  <2>2. U[n] = UnitAt(L, UnitStarts(L), i) /\ U[n].kind = UnitKind(L[i])
    BY <2>1, ComputeFacts
  <2> HIDE DEF i, U
  <2>3. /\ U[n].kind = "atom" => U[n].key = <<"atom", L[i].attrs["id"]>>
        /\ U[n].kind = "implicit" => U[n].key[1] = "implicit"
        /\ U[n].kind \in {"atom", "implicit", "group"}
        /\ U[n].kind = "group" <=> L[i].kind = "open"
    <3> DEFINE u == UnitAt(L, UnitStarts(L), i)
    <3>1. /\ u.kind = "atom" => u.key = <<"atom", L[i].attrs["id"]>>
          /\ u.kind = "implicit" => u.key[1] = "implicit"
          /\ u.kind \in {"atom", "implicit", "group"}
          /\ u.kind = "group" <=> L[i].kind = "open"
      BY KeyFacts
    <3> HIDE DEF u
    <3> QED
      BY <2>2, <3>1 DEF u
  <2>4. U[n].kind = "atom" <=> (L[i].kind = "atom" /\ HasAttr(L[i], "id"))
    BY <2>2 DEF UnitKind
  <2> QED
    BY <2>1, <2>3, <2>4 DEF i
<1>6. ASSUME NEW k \in keys, k[1] = "atom", x = k[2]
      PROVE  \E i \in f..t : L[i].kind = "atom" /\ HasAttr(L[i], "id") /\ x = L[i].attrs["id"]
  <2>1. PICK n \in a..b : k = U[n].key
    BY <1>4, <1>6
  <2> DEFINE i == U[n].first
  <2>2. L[i].kind = "atom" /\ HasAttr(L[i], "id") /\ x = L[i].attrs["id"]
    <3> HIDE DEF U
    <3> QED
      BY <1>5, <1>6, <2>1
  <2>3. i \in f..t
    <3>0. n \in 1..Len(U) /\ a \in 1..Len(U) /\ b \in 1..Len(U) /\ a <= n /\ n <= b
      <4> HIDE DEF U
      <4> QED
        BY <1>1, <1>2, <2>1
    <3>1. /\ U[n].first \in 1..Len(L) /\ U[n].last \in U[n].first..Len(L)
          /\ U[a].first \in 1..Len(L) /\ U[a].last \in U[a].first..Len(L)
          /\ U[b].first \in 1..Len(L) /\ U[b].last \in U[b].first..Len(L)
      BY <1>1, <3>0
    <3>2. (a < n => U[a].last < U[n].first) /\ (n < b => U[n].last < U[b].first)
      BY <1>1, <3>0
    <3> HIDE DEF U
    <3>3. a < n \/ a = n
      BY <1>1, <3>0
    <3>4. n < b \/ n = b
      BY <1>1, <3>0
    <3>5. U[a].first <= U[n].first
      BY <3>1, <3>2, <3>3
    <3>6. U[n].first <= U[b].last
      BY <3>1, <3>2, <3>4
    <3> QED
      BY <3>1, <3>5, <3>6
  <2> HIDE DEF i
  <2> QED
    BY <2>2, <2>3
<1>7. ASSUME NEW i \in f..t, L[i].kind = "atom", HasAttr(L[i], "id"), x = L[i].attrs["id"]
      PROVE  \E k \in keys : k[1] = "atom" /\ x = k[2]
  <2>0. a \in 1..Len(U) /\ b \in 1..Len(U) /\ a \in Nat /\ b \in Nat /\ a <= b
    <3> HIDE DEF U
    <3> QED
      BY <1>1, <1>2
  <2>1. /\ U[a].first \in 1..Len(L) /\ U[b].last \in U[b].first..Len(L) /\ PreambleEnd(L) < U[a].first
        /\ Len(L) \in Nat /\ PreambleEnd(L) \in Nat /\ U[b].first \in 1..Len(L)
    BY <1>1, <2>0, SeqDomain, PreambleFacts
  <2>2. i \in 1..Len(L) /\ PreambleEnd(L) < i /\ f <= i /\ i <= t
    <3> HIDE DEF U
    <3> QED
      BY <2>1
  <2>3. PICK s \in UnitStarts(L) : s <= i /\ i <= UnitEnd(L, s)
    BY <1>7, <2>2, UnitsCover DEF IsBlank
  <2>4. PICK n \in 1..Len(U) : U[n].first = s
    BY <2>3, ComputeFacts
  <2>5. U[n].last = UnitEnd(L, s) /\ s \in 1..Len(L) /\ U[n].last \in s..Len(L)
    BY <1>1, <2>4
  <2>6. n \in a..b
    <3>1. ~(n < a)
      <4>1. n < a => U[n].last < U[a].first
        BY <1>1, <2>0, <2>4
      <4> HIDE DEF U
      <4> QED
        BY <2>1, <2>2, <2>3, <2>5, <4>1
    <3>2. ~(b < n)
      <4>1. b < n => U[b].last < U[n].first
        BY <1>1, <2>0, <2>4
      <4> HIDE DEF U
      <4> QED
        BY <2>3, <2>4, <2>5, <2>1, <2>2, <4>1
    <3> HIDE DEF U
    <3> QED
      BY <1>1, <2>0, <2>4, <3>1, <3>2
  <2>7. L[s].kind # "open"
    <3> HIDE DEF U
    <3> QED
      BY <1>5, <2>4, <2>6
  <2>8. s = i
    <3>1. \A k \in (s + 1)..UnitEnd(L, s) : ~IsBoundary(L[k])
      BY <2>3, <2>7, UnitFacts
    <3>2. i \notin (s + 1)..UnitEnd(L, s)
      BY <1>7, <3>1 DEF IsBoundary, LooksLikeDirectiveLine
    <3>3. UnitEnd(L, s) \in Nat
      <4> HIDE DEF U
      <4> QED
        BY <2>5
    <3> QED
      BY <2>2, <2>3, <2>5, <3>2, <3>3
  <2>9. U[n].key[1] = "atom" /\ x = U[n].key[2] /\ U[n].key \in keys
    <3> HIDE DEF U
    <3> QED
      BY <1>4, <1>5, <1>7, <2>4, <2>6, <2>8
  <2> HIDE DEF U
  <2> QED
    BY <2>9
<1> QED
  BY <1>6, <1>7

\* What the new group holds: the atoms with ids among the lines it was put around.
LEMMA GroupedAtoms ==
    ASSUME NEW L, NEW f, NEW t, NEW attrs, NEW N, Grouped(L, f, t, attrs, N), NoNesting(N)
    PROVE  AtomsIn(N, f) = AtomIds(L, f, t)
<1>1. /\ Len(L) \in Nat /\ Len(N) = Len(L) + 2 /\ f \in 1..Len(L) /\ t \in f..Len(L)
      /\ N[f].kind = "open" /\ N[t + 2].kind = "close" /\ IsSeq(N)
      /\ \A i \in (f + 1)..(t + 1) : N[i] = L[i - 1]
      /\ \A k \in f..t : ~IsMarker(L[k])
  BY DEF Grouped, Close, Open
<1>2. f \in 1..Len(N) /\ t + 2 \in (f + 1)..Len(N)
  BY <1>1
<1>3. \A k \in (f + 1)..(t + 1) : ~IsMarker(N[k])
  BY <1>1
<1>4. UnitEnd(N, f) = t + 2
  <2> DEFINE c == t + 2
  <2>1. /\ c \in (f + 1)..Len(N) /\ N[c].kind = "close" /\ f \in 1..Len(N) /\ N[f].kind = "open"
        /\ IsSeq(N)
    BY <1>1, <1>2
  <2>2. \A k \in (f + 1)..(c - 1) : ~IsMarker(N[k])
    <3>1. c - 1 = t + 1
      BY <1>1
    <3> QED
      BY <1>3, <3>1
  <2> HIDE DEF c
  <2>3. UnitEnd(N, f) = c
    BY <2>1, <2>2, GroupEnd
  <2> QED
    BY <2>3 DEF c
<1>5. AtomsIn(N, f) = AtomsTo(N, f)
  BY <1>1, <1>2, AtomsAre
<1> DEFINE P(l) == l.kind = "atom" /\ HasAttr(l, "id")
           X == {j \in (f + 1)..(t + 2) : P(N[j])}
           Y == {j \in f..t : P(L[j])}
<1>6. \A i : i \in Y <=> i + 1 \in X /\ i \in f..t
  <2>1. \A i \in f..t : N[i + 1] = L[i] /\ i + 1 \in (f + 1)..(t + 2)
    BY <1>1
  <2> QED
    BY <2>1
<1>7. \A j \in X : j - 1 \in f..t /\ j - 1 \in Y /\ N[j] = L[j - 1]
  <2>1. ASSUME NEW j \in X PROVE j - 1 \in f..t /\ N[j] = L[j - 1]
    <3>1. j # t + 2
      BY <1>1
    <3> QED
      BY <1>1, <3>1
  <2> QED
    BY <2>1
<1>8. \A i \in Y : N[i + 1] = L[i]
  <2>1. ASSUME NEW i \in f..t PROVE N[i + 1] = L[i]
    <3>1. i + 1 \in (f + 1)..(t + 1) /\ i + 1 - 1 = i
      BY <1>1
    <3> QED
      BY <1>1, <3>1
  <2> QED
    BY <2>1
<1> HIDE DEF X, Y, P
<1>9. {N[j].attrs["id"] : j \in X} = {L[i].attrs["id"] : i \in Y}
  <2>1. ASSUME NEW x \in {N[j].attrs["id"] : j \in X} PROVE x \in {L[i].attrs["id"] : i \in Y}
    BY <1>7
  <2>2. ASSUME NEW x \in {L[i].attrs["id"] : i \in Y} PROVE x \in {N[j].attrs["id"] : j \in X}
    BY <1>6, <1>8
  <2> QED
    BY <2>1, <2>2
<1>10. AtomsTo(N, f) = {N[j].attrs["id"] : j \in X}
  BY <1>4 DEF AtomsTo, X, P
<1> QED
  BY <1>5, <1>9, <1>10 DEF Y, P, AtomIds

\* What a grouping does: markers around lines that hold no marker, outside of groups, and
\* the atoms with ids among them are those that were selected.
LEMMA GroupMakes ==
    ASSUME NEW L, IsSeq(L), Paired(L), UniqueIds(L), NEW keys, IsFiniteSet(keys), NEW id, NEW given,
           NEW N, InsertGroupMarkers(L, keys, id, given) = Rewritten(N)
    PROVE  /\ id \notin ExistingIds(L)
           /\ \E f \in 1..Len(L) : \E t \in f..Len(L) :
                /\ Grouped(L, f, t, NewGroup(id, given), N)
                /\ Selected(keys) = AtomIds(L, f, t)
<1> DEFINE U == ComputeUnits(L)
           attrs == NewGroup(id, given)
<1>1. PICK a \in 1..Len(U) : \E b \in a..Len(U) :
              /\ \A n \in a..b : U[n].kind # "group"
              /\ Positions(U, keys) = a..b
              /\ Cardinality(keys) = b - a + 1
              /\ id \notin ExistingIds(L)
              /\ N = Around(L, U[a].first, U[b].last, Open(attrs))
  BY GroupIs
<1>2. PICK b \in a..Len(U) :
              /\ \A n \in a..b : U[n].kind # "group"
              /\ Positions(U, keys) = a..b
              /\ Cardinality(keys) = b - a + 1
              /\ id \notin ExistingIds(L)
              /\ N = Around(L, U[a].first, U[b].last, Open(attrs))
  BY <1>1
<1> DEFINE f == U[a].first
           t == U[b].last
<1>3. /\ f \in UnitStarts(L) /\ f \in 1..Len(L) /\ t \in f..Len(L)
      /\ \A k \in f..t : ~IsMarker(L[k])
  BY <1>2, PlainRun
<1>4. GroupLine(L, f) = 0
  BY <1>3, StartFacts
<1>5. Selected(keys) = AtomIds(L, f, t)
  <2>1. PlainUnits(L, a, b) /\ Positions(ComputeUnits(L), keys) = a..b /\ Cardinality(keys) = b - a + 1
    BY <1>2 DEF PlainUnits
  <2>2. a \in 1..Len(ComputeUnits(L)) /\ b \in a..Len(ComputeUnits(L))
    OBVIOUS
  <2>3. Selected(keys) = AtomIds(L, First(L, a), ComputeUnits(L)[b].last)
    BY <2>1, <2>2, RunAtoms
  <2> QED
    BY <2>3 DEF First
<1> HIDE DEF attrs, f, t
<1>6. N = Around(L, f, t, Open(attrs))
  BY <1>2 DEF f, t
<1>7. Grouped(L, f, t, attrs, N)
  <2>1. /\ IsSeq(N) /\ Len(N) = Len(L) + 2
        /\ \A i \in 1..(f - 1) : N[i] = L[i]
        /\ N[f] = Open(attrs)
        /\ \A i \in (f + 1)..(t + 1) : N[i] = L[i - 1]
        /\ N[t + 2] = Close
        /\ \A i \in (t + 3)..(Len(L) + 2) : N[i] = L[i - 2]
    BY <1>3, <1>6, AroundFacts
  <2>2. Len(L) \in Nat
    BY SeqDomain
  <2> QED
    BY <1>3, <1>4, <2>1, <2>2 DEF Grouped
<1>8. id \notin ExistingIds(L)
  BY <1>2
<1> QED
  BY <1>3, <1>5, <1>7, <1>8 DEF attrs

\* A grouping adds one group, of the selected atoms.
LEMMA GroupMembers ==
    ASSUME NEW L, IsSeq(L), Paired(L), UniqueIds(L), NEW keys, IsFiniteSet(keys), NEW id, NEW given,
           NEW N, InsertGroupMarkers(L, keys, id, given) = Rewritten(N)
    PROVE  Members(N) = Members(L) \cup {<<<<"group", id>>, {k[2] : k \in {u \in keys : u[1] = "atom"}}>>}
<1> DEFINE attrs == NewGroup(id, given)
           held == Selected(keys)
<1>1. id \notin ExistingIds(L)
  BY GroupMakes
<1>2. \E f \in 1..Len(L) : \E t \in f..Len(L) :
                /\ Grouped(L, f, t, NewGroup(id, given), N)
                /\ Selected(keys) = AtomIds(L, f, t)
  BY GroupMakes
<1> HIDE DEF attrs, held
<1>3. PICK f \in 1..Len(L) : \E t \in f..Len(L) :
                /\ Grouped(L, f, t, attrs, N)
                /\ held = AtomIds(L, f, t)
  BY <1>2 DEF attrs, held
<1>4. PICK t \in f..Len(L) :
                /\ Grouped(L, f, t, attrs, N)
                /\ held = AtomIds(L, f, t)
  BY <1>3
<1>5. HasAttr(Open(attrs), "id") /\ attrs["id"] = id
  BY RenamedId DEF attrs
<1>6. "id" \in DOMAIN attrs /\ attrs["id"] \notin ExistingIds(L)
  BY <1>1, <1>5 DEF HasAttr, Open
<1>7. NoNesting(L)
  BY PairsDoNotNest
<1>8. NoNesting(N)
  BY <1>4, <1>7, GroupedNesting
<1>9. UniqueIds(N)
  BY <1>4, <1>6, GroupedIds
<1>10. AtomsIn(N, f) = held
  <2>1. AtomsIn(N, f) = AtomIds(L, f, t)
    BY <1>4, <1>8, GroupedAtoms
  <2> QED
    BY <1>4, <2>1
<1>11. /\ IsSeq(N) /\ f \in 1..Len(N) /\ N[f] = Open(attrs) /\ N[f].kind = "open"
       /\ N[t + 2].kind = "close" /\ Len(L) \in Nat
  BY <1>4 DEF Grouped, Open, Close
<1>12. GroupName(N[f]) = <<"group", id>>
  <2>1. N[f].attrs["id"] = id
    BY <1>5, <1>11 DEF Open
  <2> QED
    BY <1>5, <1>11, <2>1 DEF GroupName
<1>13. Slides(N, L, {f, t + 2}, Above(N, f, t)) /\ Drops(N, {f, t + 2}, f)
  BY <1>4, GroupedSlides
<1> DEFINE new == <<<<"group", id>>, held>>
<1>14. ASSUME NEW m PROVE m \in Members(N) <=> m \in Members(L) \cup {new}
  <2>1. m \in Members(L) <=> \E g \in 1..Len(N) : g \notin {f, t + 2} /\ GroupAt(N, g, m)
    BY <1>8, <1>9, <1>11, <1>13, SlideMembers
  <2>2. m \in Members(N) <=> \E o \in 1..Len(N) : GroupAt(N, o, m)
    BY <1>8, <1>9, <1>11, MembersAre
  <2>3. GroupAt(N, f, m) <=> m = new
    BY <1>10, <1>11, <1>12 DEF GroupAt
  <2>4. ~GroupAt(N, t + 2, m)
    BY <1>11 DEF GroupAt
  <2> HIDE DEF new
  <2> QED
    BY <1>11, <2>1, <2>2, <2>3, <2>4
<1>15. Members(N) = Members(L) \cup {new}
  BY <1>14
<1> QED
  BY <1>15 DEF held, Selected

\* The groups that a request says there are, after it.
AsRequested(r, M) ==
    CASE r.op = "group" -> M \cup {<<<<"group", r.id>>, {k[2] : k \in {u \in r.keys : u[1] = "atom"}}>>}
      [] r.op = "ungroup" -> {m \in M : m[1] # r.key}
      [] OTHER -> M

\* What an edit makes has the groups that its request says.
LEMMA MadeMembers ==
    ASSUME NEW r, NEW L, NEW N, IsSeq(L), IsSeq(N), WellPlaced(L), Paired(L), UniqueIds(L), N # L,
           Made(r, L, N)
    PROVE  Members(N) = AsRequested(r, Members(L))
<1>0. NoNesting(L)
  BY PairsDoNotNest
<1>1. CASE /\ r.op = "reorder" /\ r.place # "start"
           /\ Makes(ReorderUnit(L, r.moved, r.target, r.place), N)
  <2>1. Members(N) = Members(L)
    BY <1>1, ReorderMembers DEF Makes
  <2> QED
    BY <1>1, <2>1 DEF AsRequested
<1>2. CASE r.op = "group" /\ IsFiniteSet(r.keys) /\ \E given : Makes(InsertGroupMarkers(L, r.keys, r.id, given), N)
  <2> DEFINE keys == r.keys
             id == r.id
  <2>1. PICK given : InsertGroupMarkers(L, keys, id, given) = Rewritten(N)
    BY <1>2 DEF Makes
  <2>2. IsFiniteSet(keys)
    BY <1>2
  <2> HIDE DEF keys, id
  <2>3. Members(N) = Members(L) \cup {<<<<"group", id>>, {k[2] : k \in {u \in keys : u[1] = "atom"}}>>}
    BY <2>1, <2>2, GroupMembers
  <2> QED
    BY <1>2, <2>3 DEF AsRequested, keys, id
<1>3. CASE /\ r.op = "ungroup" /\ IsGroupKey(r.key) /\ ~GroupFault(L, r.key)
           /\ Makes(RemoveGroupMarkers(L, r.key), N)
  <2>1. Members(N) = {m \in Members(L) : m[1] # r.key}
    BY <1>3, UngroupMembers DEF Makes
  <2> QED
    BY <1>3, <2>1 DEF AsRequested
<1>4. CASE r.op = "name" /\ \E id, given : \/ Makes(SetAtomSlug(L, id, given), N)
                                           \/ Makes(SetGroupSlug(L, id, given), N)
  <2>1. Members(N) = Members(L)
    BY <1>0, <1>4, NameMembers DEF Makes
  <2> QED
    BY <1>4, <2>1 DEF AsRequested
<1>5. CASE r.op = "attrs" /\ \E sent : Makes(SaveAttrs(L, r.id, sent), N)
  <2>1. Members(N) = Members(L)
    BY <1>0, <1>5, AttrsMembers DEF Makes
  <2> QED
    BY <1>5, <2>1 DEF AsRequested
<1>6. CASE r.op = "block" /\ IsSeq(r.text) /\ Makes(ReplaceAtomBlock(L, r.id, r.text), N)
  <2>1. Members(N) = Members(L)
    BY <1>0, <1>6, BlockMembers DEF Makes
  <2> QED
    BY <1>6, <2>1 DEF AsRequested
<1>7. CASE r.op = "review" /\ Makes(SetAtomDigests(L, ReviewEntries(L, r.ids)), N)
  <2>1. Members(N) = Members(L)
    BY <1>0, <1>7, ReviewMembers DEF Makes
  <2> QED
    BY <1>7, <2>1 DEF AsRequested
<1> QED
  BY <1>1, <1>2, <1>3, <1>4, <1>5, <1>6, <1>7 DEF Made

\* Whatever lands has the groups that its request says.
LEMMA MembersStep == ViewInv /\ [ViewNext]_viewVars =>
    \A v \in Views : Landed(v) =>
         Members(buffer') =
           CASE Asked(v).op = "group" ->
                  Members(buffer) \cup
                    {<<<<"group", Asked(v).id>>,
                       {k[2] : k \in {u \in Asked(v).keys : u[1] = "atom"}}>>}
             [] Asked(v).op = "ungroup" ->
                  {m \in Members(buffer) : m[1] # Asked(v).key}
             [] OTHER -> Members(buffer)
<1> SUFFICES ASSUME ViewInv, [ViewNext]_viewVars, NEW v \in Views, Landed(v)
             PROVE  Members(buffer') = AsRequested(Asked(v), Members(buffer))
  BY DEF AsRequested
<1> DEFINE r == Asked(v)
<1>1. /\ IsSeq(buffer) /\ IsSeq(buffer') /\ WellPlaced(buffer) /\ Paired(buffer) /\ UniqueIds(buffer)
      /\ Made(r, buffer, buffer') /\ buffer' # buffer
  BY LandedMakes
<1> HIDE DEF r
<1>2. Members(buffer') = AsRequested(r, Members(buffer))
  BY <1>1, MadeMembers
<1> QED
  BY <1>2 DEF r

\* The board and the inline view make and remove groups only where an edit says so: what
\* lands of any other request leaves every group with its atoms (GroupsChangeOnlyAsAsked).
THEOREM GroupsFollowRequests == ViewSpec => GroupsChangeOnlyAsAsked
<1>1. ViewInv /\ [ViewNext]_viewVars =>
    [\A v \in Views : Landed(v) =>
         Members(buffer') =
           CASE Asked(v).op = "group" ->
                  Members(buffer) \cup
                    {<<<<"group", Asked(v).id>>,
                       {k[2] : k \in {u \in Asked(v).keys : u[1] = "atom"}}>>}
             [] Asked(v).op = "ungroup" ->
                  {m \in Members(buffer) : m[1] # Asked(v).key}
             [] OTHER -> Members(buffer)]_viewVars
  BY MembersStep
<1> QED
  BY <1>1, ViewsAreConsistent, PTL DEF ViewSpec, GroupsChangeOnlyAsAsked

----------------------------------------
(* Cards that were drawn from an older text *)

\* What slides without a drop slides back.
LEMMA SlideBack ==
    ASSUME NEW A, NEW B, IsSeq(A), IsSeq(B), NEW p, Slides(A, B, {}, p)
    PROVE  \E q : Slides(B, A, {}, q)
<1> DEFINE of(j) == CHOOSE i : Stays(A, {}, i) /\ p[i] = j
           q == [j \in 1..Len(B) |-> of(j)]
<1>1. Len(A) \in Nat /\ Len(B) \in Nat
  BY SeqDomain
<1>2. ASSUME NEW j, Stays(B, {}, j)
      PROVE  /\ j \in 1..Len(B) /\ Stays(A, {}, q[j]) /\ p[q[j]] = j
             /\ q[j] \in 1..Len(A) /\ SameDirective(B[j], A[q[j]])
  <2>1. j \in 1..Len(B) /\ Directive(B[j])
    BY <1>2 DEF Stays
  <2>2. \E i : Stays(A, {}, i) /\ p[i] = j
    BY <2>1 DEF Slides
  <2>3. Stays(A, {}, of(j)) /\ p[of(j)] = j
    BY <2>2
  <2>4. q[j] = of(j)
    BY <2>1
  <2> HIDE DEF q, of
  <2>5. SameDirective(A[q[j]], B[j]) /\ q[j] \in 1..Len(A)
    BY <2>3, <2>4 DEF Slides, Stays
  <2>6. SameDirective(B[j], A[q[j]])
    BY <2>5 DEF SameDirective
  <2> QED
    BY <2>1, <2>3, <2>4, <2>5, <2>6
<1> HIDE DEF q
<1>3. ASSUME NEW j, NEW k, Stays(B, {}, j), Stays(B, {}, k), j < k
      PROVE  q[j] < q[k]
  <2>1. p[q[j]] < p[q[k]] /\ Stays(A, {}, q[j]) /\ Stays(A, {}, q[k])
    BY <1>2, <1>3
  <2> QED
    BY <2>1, SlideOrder
<1>4. ASSUME NEW i \in 1..Len(A), Directive(A[i]) PROVE \E j : Stays(B, {}, j) /\ q[j] = i
  <2>1. Stays(A, {}, i)
    BY <1>4 DEF Stays
  <2>2. p[i] \in 1..Len(B) /\ SameDirective(A[i], B[p[i]])
    BY <2>1 DEF Slides
  <2>3. Stays(B, {}, p[i])
    BY <1>4, <2>2 DEF Stays, Directive, SameDirective
  <2>4. Stays(A, {}, q[p[i]]) /\ p[q[p[i]]] = p[i]
    BY <1>2, <2>3
  <2> DEFINE k == q[p[i]]
  <2>5. Stays(A, {}, k) /\ p[k] = p[i]
    BY <2>4
  <2> HIDE DEF k
  <2>6. k = i
    BY <2>1, <2>5, SlideOrder
  <2> QED
    BY <2>3, <2>6 DEF k
<1>5. Slides(B, A, {}, q)
  BY <1>2, <1>3, <1>4 DEF Slides
<1> QED
  BY <1>5

\* A text in which no group is opened inside of one and no id is there twice.
Sound(L) == NoNesting(L) /\ UniqueIds(L)

\* A text whose directives are those of another in their order is as sound.
LEMMA SlideSound ==
    ASSUME NEW A, NEW B, IsSeq(A), IsSeq(B), NEW p, Slides(A, B, {}, p)
    PROVE  /\ Sound(A) <=> Sound(B)
           /\ Sound(A) => Members(B) = Members(A)
<1>1. Drops(A, {}, 0) /\ Drops(B, {}, 0)
  BY DEF Drops
<1>2. PICK q : Slides(B, A, {}, q)
  BY SlideBack
<1>3. Sound(A) => Sound(B)
  BY <1>1, SlideNesting, SlideIds DEF Sound
<1>4. Sound(B) => Sound(A)
  BY <1>1, <1>2, SlideNesting, SlideIds DEF Sound
<1>5. Sound(A) => Members(B) = Members(A)
  BY SlideSame DEF Sound
<1> QED
  BY <1>3, <1>4, <1>5

\* Typing moves directives and changes none.
LEMMA TypedSlides ==
    ASSUME NEW L, IsSeq(L), NEW N \in Typed(L)
    PROVE  IsSeq(N) /\ \E p : Slides(L, N, {}, p)
<1>0. Len(L) \in Nat /\ DOMAIN L = 1..Len(L)
  BY SeqDomain
<1>1. CASE \E p \in 1..(Len(L) + 1), l \in TypedLines : N = InsertAt(L, p, l)
  <2>1. PICK p \in 1..(Len(L) + 1), l \in TypedLines : N = InsertAt(L, p, l)
    BY <1>1
  <2>2. /\ IsSeq(N) /\ Len(N) = Len(L) + 1 /\ N[p] = l
        /\ \A i \in 1..(p - 1) : N[i] = L[i]
        /\ \A i \in (p + 1)..(Len(L) + 1) : N[i] = L[i - 1]
    BY <2>1, Inserted
  <2>3. p \in 1..Len(N)
    BY <1>0, <2>2
  <2>4. Slides(N, RemoveAt(N, p), {p}, Below(N, p))
    BY <2>2, <2>3, SlideCut
  <2>5. ~Directive(N[p])
    BY <2>2, TypedAssumption DEF Directive
  <2>6. Slides(N, RemoveAt(N, p), {}, Below(N, p))
    BY <2>4, <2>5, SlideLess
  <2>7. RemoveAt(N, p) = L
    <3> DEFINE t == RemoveAt(N, p)
    <3>1. /\ IsSeq(t) /\ Len(t) = Len(N) - 1
          /\ \A i \in 1..(p - 1) : t[i] = N[i]
          /\ \A i \in p..(Len(N) - 1) : t[i] = N[i + 1]
      BY <2>2, <2>3, Removed
    <3> HIDE DEF t
    <3>2. ASSUME NEW i \in 1..Len(t) PROVE t[i] = L[i]
      <4>1. CASE i < p
        <5>1. i \in 1..(p - 1)
          BY <1>0, <2>2, <3>1, <4>1
        <5> QED
          BY <2>2, <3>1, <5>1
      <4>2. CASE ~(i < p)
        <5>1. i \in p..(Len(N) - 1) /\ i + 1 \in (p + 1)..(Len(L) + 1) /\ (i + 1) - 1 = i
          BY <1>0, <2>2, <3>1, <4>2
        <5> QED
          BY <2>2, <3>1, <5>1
      <4> QED
        BY <4>1, <4>2
    <3>3. Len(t) = Len(L)
      BY <1>0, <2>2, <3>1
    <3>4. t = L
      BY <3>1, <3>2, <3>3, SameSeq
    <3> QED
      BY <3>4 DEF t
  <2> QED
    BY <2>2, <2>6, <2>7, SlideBack
<1>2. CASE \E p \in DOMAIN L : L[p].kind = "text" /\ N = RemoveAt(L, p)
  <2>1. PICK p \in 1..Len(L) : L[p].kind = "text" /\ N = RemoveAt(L, p)
    BY <1>0, <1>2
  <2>2. Slides(L, N, {p}, Below(L, p))
    BY <2>1, SlideCut
  <2>3. ~Directive(L[p])
    BY <2>1 DEF Directive
  <2>4. Slides(L, N, {}, Below(L, p))
    BY <2>2, <2>3, SlideLess
  <2>5. IsSeq(N)
    BY <2>1, Removed
  <2> QED
    BY <2>4, <2>5
<1> QED
  BY <1>1, <1>2 DEF Typed

\* A group of a text, by its id, with the atoms it holds.
NamedGroup(L, x, held) == <<<<"group", x>>, held>> \in Members(L)

\* A group of a text is an opening line of its id, with the atoms it holds.
LEMMA NamedIs ==
    ASSUME NEW L, IsSeq(L), Sound(L), NEW x, NEW held
    PROVE  NamedGroup(L, x, held) <=>
             \E o \in 1..Len(L) : IsOpen(L[o], x) /\ held = AtomsIn(L, o)
<1> DEFINE m == <<<<"group", x>>, held>>
<1>1. m \in Members(L) <=> \E o \in 1..Len(L) : GroupAt(L, o, m)
  <2> HIDE DEF m
  <2> QED
    BY MembersAre DEF Sound
<1>2. ASSUME NEW o \in 1..Len(L)
      PROVE  GroupAt(L, o, m) <=> IsOpen(L[o], x) /\ held = AtomsIn(L, o)
  <2>1. m = <<GroupName(L[o]), AtomsIn(L, o)>> <=> <<"group", x>> = GroupName(L[o]) /\ held = AtomsIn(L, o)
    OBVIOUS
  <2>2. CASE HasAttr(L[o], "id")
    <3>1. GroupName(L[o]) = <<"group", L[o].attrs["id"]>>
      BY <2>2 DEF GroupName
    <3>2. <<"group", x>> = GroupName(L[o]) <=> L[o].attrs["id"] = x
      BY <3>1
    <3> QED
      BY <2>1, <2>2, <3>2 DEF GroupAt, IsOpen
  <2>3. CASE ~HasAttr(L[o], "id")
    <3>1. GroupName(L[o]) = <<"faulted">>
      BY <2>3 DEF GroupName
    <3>2. <<"group", x>> # GroupName(L[o])
      BY <3>1
    <3> QED
      BY <2>1, <2>3, <3>2 DEF GroupAt, IsOpen
  <2> QED
    BY <2>2, <2>3
<1> QED
  BY <1>1, <1>2 DEF NamedGroup

\* No two groups have one id.
LEMMA NamesApart ==
    ASSUME NEW L, IsSeq(L), Sound(L), NEW x, NEW S, NEW T, NamedGroup(L, x, S), NamedGroup(L, x, T)
    PROVE  S = T
<1>1. PICK o \in 1..Len(L) : IsOpen(L[o], x) /\ S = AtomsIn(L, o)
  BY NamedIs
<1>2. PICK r \in 1..Len(L) : IsOpen(L[r], x) /\ T = AtomsIn(L, r)
  BY NamedIs
<1>3. o \in Carriers(L) /\ r \in Carriers(L)
  BY <1>1, <1>2, SeqDomain DEF Carriers, IsOpen
<1>4. o = r
  BY <1>1, <1>2, <1>3 DEF Sound, UniqueIds, IsOpen
<1> QED
  BY <1>1, <1>2, <1>4

\* The ids of groups are ids of the page.
LEMMA NamedExist ==
    ASSUME NEW L, IsSeq(L), Sound(L), NEW x, NEW held, NamedGroup(L, x, held)
    PROVE  x \in ExistingIds(L)
<1>1. PICK o \in 1..Len(L) : IsOpen(L[o], x)
  BY NamedIs
<1>2. o \in Carriers(L) /\ HasAttr(L[o], "id") /\ L[o].attrs["id"] = x
  BY <1>1, SeqDomain DEF Carriers, IsOpen
<1> QED
  BY <1>2 DEF ExistingIds, OpenIds

\* A card drawn in a group is that of an atom the group holds, and says the group's id or,
\* where there is none, the line of its marker.
LEMMA CardIn ==
    ASSUME NEW L, IsSeq(L), Sound(L), NEW c \in Range(ParseAtoms(L)), ~IsImplicit(c),
           c.group # <<"none">>
    PROVE  \E g \in 1..Len(L) :
             /\ L[g].kind = "open" /\ c.id[2] \in AtomsIn(L, g)
             /\ HasAttr(L[g], "id") => c.group = <<"group", L[g].attrs["id"]>>
             /\ ~HasAttr(L[g], "id") => c.group = <<"line", g>>
<1>1. PICK i \in BlockStarts(L) : \E h \in 1..Len(L) :
             /\ h = Heading(L, i) /\ IsExplicit(L, i)
             /\ L[h].kind = "atom" /\ HasAttr(L[h], "id")
             /\ c = CardAt(L, Loose(L), i)
             /\ c.id[2] = L[h].attrs["id"]
  BY ExplicitCard
<1>2. PICK h \in 1..Len(L) :
             /\ h = Heading(L, i)
             /\ L[h].kind = "atom" /\ HasAttr(L[h], "id")
             /\ c = CardAt(L, Loose(L), i)
             /\ c.id[2] = L[h].attrs["id"]
  BY <1>1
<1>3. c.group = AtomGroup(L, i)
  <2>1. CardAt(L, Loose(L), i).group = AtomGroup(L, i)
    BY DEF CardAt
  <2> QED
    BY <1>2, <2>1
<1>4. i \in 1..Len(L) /\ Len(L) \in Nat
  BY BlockStartsFacts, SeqDomain
<1> DEFINE g == GroupLine(L, i)
<1>5. /\ g \in 0..(i - 1)
      /\ g # 0 => L[g].kind = "open" /\ \A k \in (g + 1)..(i - 1) : ~IsMarker(L[k])
  BY <1>4, GroupLineFacts
<1> DEFINE earlier == {k \in 1..(g - 1) : L[k].kind = "open"}
<1>6. g # 0 /\ c.group = GroupIdentity(L[g].attrs, g, OpenIds(L, earlier)).key
  BY <1>3 DEF AtomGroup
<1> HIDE DEF g
<1>7. g \in 1..Len(L) /\ g < i
  BY <1>4, <1>5, <1>6
<1>8. HasAttr(L[g], "id") => L[g].attrs["id"] \notin OpenIds(L, earlier)
  <2> SUFFICES ASSUME HasAttr(L[g], "id"), NEW k \in earlier, HasAttr(L[k], "id"),
                      L[g].attrs["id"] = L[k].attrs["id"]
               PROVE  FALSE
    BY DEF OpenIds
  <2>1. k \in 1..Len(L) /\ k # g /\ L[k].kind = "open"
    BY <1>4, <1>7
  <2>2. k \in Carriers(L) /\ g \in Carriers(L)
    BY <1>5, <1>6, <1>7, <2>1, SeqDomain DEF Carriers
  <2> QED
    BY <2>1, <2>2 DEF Sound, UniqueIds
<1> HIDE DEF earlier
<1>9. /\ HasAttr(L[g], "id") => c.group = <<"group", L[g].attrs["id"]>>
      /\ ~HasAttr(L[g], "id") => c.group = <<"line", g>>
  BY <1>6, <1>8 DEF GroupIdentity, HasAttr
<1>10. h < i /\ \A j \in 1..(i - 1) : IsStructural(L[j]) => j <= h
  BY <1>2, <1>4, HeadingFacts
<1>11. g # h /\ IsStructural(L[g])
  BY <1>2, <1>5, <1>6 DEF IsStructural, LooksLikeDirectiveLine
<1>12. g \in 1..(h - 1) /\ h \in 1..(Len(L) + 1)
  BY <1>4, <1>7, <1>10, <1>11
<1>13. \A k \in (g + 1)..(h - 1) : ~IsMarker(L[k])
  BY <1>4, <1>5, <1>6, <1>10, <1>12
<1>14. GroupLine(L, h) = g
  BY <1>5, <1>6, <1>12, <1>13, GroupLineIs
<1>15. L[h].attrs["id"] \in AtomsIn(L, g)
  BY <1>2, <1>14 DEF AtomsIn
<1> QED
  BY <1>2, <1>5, <1>6, <1>7, <1>9, <1>15

\* The groups without an id, with the atoms they hold.
Nameless(L) == {m \in Members(L) : m[1] = <<"faulted">>}

\* A group without an id is an opening marker that has none.
LEMMA NamelessIs ==
    ASSUME NEW L, IsSeq(L), Sound(L), NEW o \in 1..Len(L), L[o].kind = "open", ~HasAttr(L[o], "id")
    PROVE  <<<<"faulted">>, AtomsIn(L, o)>> \in Nameless(L)
<1> DEFINE m == <<<<"faulted">>, AtomsIn(L, o)>>
<1>1. GroupAt(L, o, m)
  BY DEF GroupAt, GroupName
<1>2. m[1] = <<"faulted">>
  OBVIOUS
<1> HIDE DEF m
<1>3. m \in Members(L)
  BY <1>1, MembersAre DEF Sound
<1> QED
  BY <1>2, <1>3 DEF Nameless, m

\* The unit of a group without an id holds the directives of the group's atoms.
LEMMA NamelessHolds ==
    ASSUME NEW L, IsSeq(L), Sound(L), NEW held, <<<<"faulted">>, held>> \in Nameless(L),
           NEW a \in held, DirectiveLine(L, a) # 0
    PROVE  LET U == ComputeUnits(L)
           IN \E n \in DOMAIN U : U[n].fault # "none" /\ DirectiveLine(L, a) \in U[n].first..U[n].last
<1> DEFINE U == ComputeUnits(L)
           at == DirectiveLine(L, a)
<1>1. /\ IsSeq(U) /\ DOMAIN U = 1..Len(U) /\ Len(L) \in Nat
  BY ComputeFacts, SeqDomain
<1>2. PICK u \in Range(U) : /\ u.kind = "group" /\ u.atoms = held
                            /\ (IF u.fault = "none" THEN u.key ELSE <<"faulted">>) = <<"faulted">>
  <2>1. PICK u \in {w \in Range(U) : w.kind = "group"} :
           <<<<"faulted">>, held>> = <<IF u.fault = "none" THEN u.key ELSE <<"faulted">>, u.atoms>>
    BY DEF Nameless, Members
  <2> QED
    BY <2>1
<1>3. PICK n \in DOMAIN U : u = U[n]
  BY DEF Range
<1> DEFINE f == U[n].first
<1>4. /\ n \in 1..Len(U) /\ U[n] = UnitAt(L, UnitStarts(L), f) /\ f \in UnitStarts(L)
      /\ U[n].last = UnitEnd(L, f)
  BY <1>1, <1>3, ComputeFacts
<1>5. f \in 1..Len(L)
  BY <1>4, StartFacts
<1>6. U[n].fault # "none" /\ U[n].atoms = AtomsTo(L, f)
  <2>1. /\ (IF U[n].fault = "none" THEN U[n].key ELSE <<"faulted">>) = GroupName(L[f])
        /\ U[n].atoms = AtomsTo(L, f)
    BY <1>2, <1>3, <1>4, UnitSays DEF Sound
  <2>2. U[n].kind = "group" =>
          \/ U[n].key = <<"line", f>> /\ U[n].fault # "none"
          \/ U[n].key = <<"group", L[f].attrs["id"]>>
    <3>1. /\ UnitAt(L, UnitStarts(L), f).kind = "group" =>
             \/ UnitAt(L, UnitStarts(L), f).key = <<"line", f>> /\ UnitAt(L, UnitStarts(L), f).fault # "none"
             \/ UnitAt(L, UnitStarts(L), f).key = <<"group", L[f].attrs["id"]>>
      <4> HIDE DEF f, U
      <4> QED
        BY KeyFacts
    <3> QED
      BY <1>4, <3>1
  <2> HIDE DEF f, U
  <2> QED
    BY <1>2, <1>3, <2>1, <2>2
<1>7. IsAtom(L[at], a) /\ at \in 1..Len(L)
  <2>1. at \in 0..Len(L) /\ at # 0 /\ (at # 0 => IsAtom(L[at], a))
    BY DirectiveFacts
  <2> HIDE DEF at
  <2> QED
    BY <1>1, <2>1
<1>8. UnitEnd(L, f) \in f..Len(L)
  <2> HIDE DEF f, U
  <2> QED
    BY <1>1, <1>5, AnyEnd
<1> HIDE DEF f, U, at
<1>9. PICK k \in (f + 1)..UnitEnd(L, f) : L[k].kind = "atom" /\ HasAttr(L[k], "id") /\ a = L[k].attrs["id"]
  BY <1>2, <1>3, <1>6 DEF AtomsTo
<1>10. k \in f..UnitEnd(L, f) /\ k \in 1..Len(L)
  BY <1>1, <1>5, <1>8, <1>9
<1>11. k = at
  <2>1. k \in Carriers(L) /\ at \in Carriers(L)
    BY <1>7, <1>9, <1>10, SeqDomain DEF Carriers, IsAtom
  <2> QED
    BY <1>7, <1>9, <2>1 DEF IsAtom, Sound, UniqueIds
<1>12. at \in f..U[n].last
  BY <1>4, <1>10, <1>11
<1> QED
  BY <1>3, <1>6, <1>12 DEF f, U, at

\* A unit that is known by a line is a group without an id.
LEMMA FoundNameless ==
    ASSUME NEW L, IsSeq(L), NEW g, FindUnit(ComputeUnits(L), <<"line", g>>) # 0
    PROVE  ComputeUnits(L)[FindUnit(ComputeUnits(L), <<"line", g>>)].fault # "none"
<1> DEFINE U == ComputeUnits(L)
           n == FindUnit(U, <<"line", g>>)
           f == U[n].first
<1>1. IsSeq(U) /\ Len(U) \in Nat
  BY ComputeFacts
<1>2. n \in 1..Len(U) /\ U[n].key = <<"line", g>>
  <2>1. n # 0
    OBVIOUS
  <2> HIDE DEF U
  <2>2. n \in 0..Len(U) /\ U[n].key = <<"line", g>>
    BY <1>1, <2>1, FindUnitFacts
  <2> HIDE DEF n
  <2> QED
    BY <1>1, <2>1, <2>2
<1>3. U[n] = UnitAt(L, UnitStarts(L), f)
  BY <1>2, ComputeFacts
<1> DEFINE u == UnitAt(L, UnitStarts(L), f)
<1>4. /\ u.kind = "atom" => u.key = <<"atom", L[f].attrs["id"]>>
      /\ u.kind = "implicit" => u.key[1] = "implicit"
      /\ u.kind = "group" =>
           \/ u.key = <<"line", f>> /\ u.fault # "none"
           \/ u.key = <<"group", L[f].attrs["id"]>>
      /\ u.kind \in {"atom", "implicit", "group"}
  <2> HIDE DEF f, n, U
  <2> QED
    BY KeyFacts
<1>5. u.key = <<"line", g>> /\ u.key[1] = "line"
  BY <1>2, <1>3
<1> HIDE DEF u, f, n, U
<1>6. u.fault # "none"
  BY <1>4, <1>5
<1> QED
  BY <1>3, <1>6 DEF f, n, U, u

\* The unit found by the id of a group begins with the group's opening marker.
LEMMA FoundGroup ==
    ASSUME NEW L, IsSeq(L), Sound(L), NEW x, FindUnit(ComputeUnits(L), <<"group", x>>) # 0
    PROVE  LET u == ComputeUnits(L)[FindUnit(ComputeUnits(L), <<"group", x>>)]
           IN /\ u.first \in 1..Len(L) /\ IsOpen(L[u.first], x) /\ u.last = UnitEnd(L, u.first)
              /\ NamedGroup(L, x, AtomsIn(L, u.first))
<1> DEFINE U == ComputeUnits(L)
           n == FindUnit(U, <<"group", x>>)
           f == U[n].first
<1>1. IsSeq(U) /\ Len(U) \in Nat
  BY ComputeFacts
<1>2. n \in 1..Len(U) /\ U[n].key = <<"group", x>>
  <2>1. n # 0
    OBVIOUS
  <2> HIDE DEF U
  <2>2. n \in 0..Len(U) /\ U[n].key = <<"group", x>>
    BY <1>1, <2>1, FindUnitFacts
  <2> HIDE DEF n
  <2> QED
    BY <1>1, <2>1, <2>2
<1>3. U[n] = UnitAt(L, UnitStarts(L), f) /\ f \in UnitStarts(L) /\ U[n].last = UnitEnd(L, f)
  BY <1>2, ComputeFacts
<1>4. f \in 1..Len(L) /\ Len(L) \in Nat
  BY <1>3, StartFacts, SeqDomain
<1>5. IsOpen(L[f], x)
  <2> DEFINE u == UnitAt(L, UnitStarts(L), f)
  <2>1. /\ u.kind = "atom" => u.key = <<"atom", L[f].attrs["id"]>>
        /\ u.kind = "implicit" => u.key[1] = "implicit"
        /\ u.kind = "group" =>
             \/ u.key = <<"line", f>> /\ u.fault # "none"
             \/ /\ u.key = <<"group", L[f].attrs["id"]>> /\ u.fault = "none"
                /\ HasAttr(L[f], "id")
        /\ u.kind \in {"atom", "implicit", "group"}
        /\ u.kind = "group" <=> L[f].kind = "open"
    <3> HIDE DEF f, n, U
    <3> QED
      BY KeyFacts
  <2>2. u.key = <<"group", x>>
    BY <1>2, <1>3
  <2> HIDE DEF u, f, n, U
  <2>3. u.kind = "group"
    BY <2>1, <2>2
  <2>4. HasAttr(L[f], "id") /\ L[f].attrs["id"] = x
    BY <2>1, <2>2, <2>3
  <2> QED
    BY <2>1, <2>3, <2>4 DEF IsOpen
<1> HIDE DEF f, n, U
<1>6. NamedGroup(L, x, AtomsIn(L, f))
  BY <1>4, <1>5, NamedIs
<1>7. f \in 1..Len(L) /\ IsOpen(L[f], x) /\ U[n].last = UnitEnd(L, f)
  BY <1>3, <1>4, <1>5
<1> QED
  BY <1>6, <1>7 DEF f, n, U

\* The unit found by the id of a group holds the directives of the group's atoms.
LEMMA UnitHolds ==
    ASSUME NEW L, IsSeq(L), Sound(L), NEW x, NEW held, NamedGroup(L, x, held), NEW a \in held,
           FindUnit(ComputeUnits(L), <<"group", x>>) # 0, DirectiveLine(L, a) # 0
    PROVE  LET u == ComputeUnits(L)[FindUnit(ComputeUnits(L), <<"group", x>>)]
           IN DirectiveLine(L, a) \in u.first..u.last
<1> DEFINE U == ComputeUnits(L)
           n == FindUnit(U, <<"group", x>>)
           f == U[n].first
           at == DirectiveLine(L, a)
<1>1. f \in 1..Len(L) /\ IsOpen(L[f], x) /\ U[n].last = UnitEnd(L, f) /\ NamedGroup(L, x, AtomsIn(L, f))
  BY FoundGroup
<1>2. Len(L) \in Nat
  BY SeqDomain
<1>3. IsAtom(L[at], a) /\ at \in 1..Len(L)
  <2>1. /\ at \in 0..Len(L) /\ at # 0
        /\ at # 0 => IsAtom(L[at], a)
    BY DirectiveFacts
  <2> HIDE DEF at
  <2> QED
    BY <1>2, <2>1
<1> HIDE DEF f, n, U, at
<1>4. held = AtomsIn(L, f)
  BY <1>1, NamesApart
<1>5. PICK k \in 1..Len(L) : L[k].kind = "atom" /\ HasAttr(L[k], "id") /\ GroupLine(L, k) = f /\ a = L[k].attrs["id"]
  BY <1>4 DEF AtomsIn
<1>6. k = at
  <2>1. k \in Carriers(L) /\ at \in Carriers(L)
    BY <1>3, <1>5, SeqDomain DEF Carriers, IsAtom
  <2> QED
    BY <1>3, <1>5, <2>1 DEF IsAtom, Sound, UniqueIds
<1>7. k \in (f + 1)..UnitEnd(L, f)
  BY <1>1, <1>2, <1>5, InsideIs DEF IsOpen, Sound
<1>8. UnitEnd(L, f) \in f..Len(L)
  BY <1>1, <1>2, AnyEnd
<1>9. at \in f..U[n].last
  BY <1>1, <1>2, <1>6, <1>7, <1>8
<1> QED
  BY <1>9 DEF f, n, U, at

\* The unit found by the id of an atom begins with the atom's directive.
LEMMA UnitOfAtom ==
    ASSUME NEW L, IsSeq(L), Sound(L), NEW a,
           FindUnit(ComputeUnits(L), <<"atom", a>>) # 0, DirectiveLine(L, a) # 0
    PROVE  LET u == ComputeUnits(L)[FindUnit(ComputeUnits(L), <<"atom", a>>)]
           IN DirectiveLine(L, a) \in u.first..u.last
<1> DEFINE U == ComputeUnits(L)
           n == FindUnit(U, <<"atom", a>>)
           f == U[n].first
           at == DirectiveLine(L, a)
<1>1. IsSeq(U) /\ Len(U) \in Nat
  BY ComputeFacts
<1>2. n \in 1..Len(U) /\ U[n].key = <<"atom", a>>
  <2>1. n # 0
    OBVIOUS
  <2> HIDE DEF U
  <2>2. n \in 0..Len(U) /\ U[n].key = <<"atom", a>>
    BY <1>1, <2>1, FindUnitFacts
  <2> HIDE DEF n
  <2> QED
    BY <1>1, <2>1, <2>2
<1>3. /\ U[n] = UnitAt(L, UnitStarts(L), f) /\ f \in UnitStarts(L) /\ U[n].last = UnitEnd(L, f)
      /\ U[n].kind = UnitKind(L[f])
  BY <1>2, ComputeFacts
<1>4. f \in 1..Len(L) /\ Len(L) \in Nat
  BY <1>3, StartFacts, SeqDomain
<1>5. IsAtom(L[f], a)
  <2> DEFINE u == UnitAt(L, UnitStarts(L), f)
  <2>1. /\ u.kind = "atom" => u.key = <<"atom", L[f].attrs["id"]>>
        /\ u.kind = "implicit" => u.key[1] = "implicit"
        /\ u.kind = "group" =>
             \/ u.key = <<"line", f>> /\ u.fault # "none"
             \/ /\ u.key = <<"group", L[f].attrs["id"]>> /\ u.fault = "none"
                /\ HasAttr(L[f], "id")
        /\ u.kind \in {"atom", "implicit", "group"}
    <3> HIDE DEF f, n, U
    <3> QED
      BY KeyFacts
  <2>2. u.key = <<"atom", a>> /\ u.kind = UnitKind(L[f])
    BY <1>2, <1>3
  <2> HIDE DEF u, f, n, U
  <2>3. u.kind = "atom"
    BY <2>1, <2>2
  <2>4. L[f].attrs["id"] = a
    BY <2>1, <2>2, <2>3
  <2>5. L[f].kind = "atom" /\ HasAttr(L[f], "id")
    BY <2>2, <2>3 DEF UnitKind
  <2> QED
    BY <2>4, <2>5 DEF IsAtom
<1>6. IsAtom(L[at], a) /\ at \in 1..Len(L)
  <2>1. /\ at \in 0..Len(L) /\ at # 0
        /\ at # 0 => IsAtom(L[at], a)
    BY DirectiveFacts
  <2> HIDE DEF at
  <2> QED
    BY <1>4, <2>1
<1> HIDE DEF f, n, U, at
<1>7. f = at
  <2>1. f \in Carriers(L) /\ at \in Carriers(L)
    BY <1>4, <1>5, <1>6, SeqDomain DEF Carriers, IsAtom
  <2> QED
    BY <1>5, <1>6, <2>1 DEF IsAtom, Sound, UniqueIds
<1>8. UnitEnd(L, f) \in f..Len(L)
  BY <1>4, AnyEnd
<1>9. at \in f..U[n].last
  BY <1>3, <1>4, <1>7, <1>8
<1> QED
  BY <1>9 DEF f, n, U, at

\* An edit that will make a group.
Pending(v) == job[v].step \in {"ask", "write"} /\ job[v].request.op = "group"

\* The texts cards are drawn from, and the one the board is about to draw.
Shown(L) ==
    \/ \E v \in Views : L = drawn[v]
    \/ job["board"].step = "draw" /\ L = job["board"].new

\* The ids of groups to come are spent, and no two are the same.
IdsApart ==
    /\ \A v \in Views : Pending(v) => job[v].request.id \in spent
    /\ \A v, w \in Views : (v # w /\ Pending(v) /\ Pending(w)) => job[v].request.id # job[w].request.id

\* The ids of a text's groups are spent, and none is that of a group to come.
Recorded(L) ==
    \A x, held : NamedGroup(L, x, held) =>
      x \in spent /\ \A v \in Views : Pending(v) => x # job[v].request.id

\* A group that was drawn and is still there holds the atoms it was drawn with; those
\* without an id are all still there.
Agrees(L) ==
    /\ Sound(L) /\ Recorded(L)
    /\ \A x, S, T : (NamedGroup(L, x, S) /\ NamedGroup(buffer, x, T)) => S = T
    /\ Nameless(L) = Nameless(buffer)

DrawnInv ==
    /\ IdsApart
    /\ (~torn /\ Sound(buffer)) => (Recorded(buffer) /\ \A L : Shown(L) => Agrees(L))

\* At the start no group is drawn that is not there, and none is to come.
LEMMA DrawnInit == ViewInit => DrawnInv
<1> SUFFICES ASSUME ViewInit PROVE DrawnInv
  OBVIOUS
<1>1. /\ IsSeq(buffer) /\ drawn = [v \in Views |-> buffer] /\ job = [v \in Views |-> Idle]
      /\ spent = ExistingIds(buffer)
  BY TextsAssumption DEF ViewInit
<1>2. \A v \in Views : job[v].step = "idle" /\ drawn[v] = buffer
  BY <1>1 DEF Idle
<1>3. \A v \in Views : ~Pending(v)
  BY <1>2 DEF Pending
<1>4. IdsApart
  BY <1>3 DEF IdsApart
<1>5. ASSUME Sound(buffer) PROVE Recorded(buffer)
  BY <1>1, <1>3, <1>5, NamedExist DEF Recorded
<1>6. \A L : Shown(L) => L = buffer
  BY <1>2 DEF Shown, Views
<1>7. ASSUME Sound(buffer) PROVE Agrees(buffer)
  BY <1>1, <1>5, <1>7, NamesApart DEF Agrees
<1> QED
  BY <1>4, <1>5, <1>6, <1>7 DEF DrawnInv

\* No edit begins here, and the page keeps its groups.
LEMMA DrawnCarries ==
    ASSUME DrawnInv, IsSeq(buffer), spent' = spent, torn' = torn,
           \A v \in Views : Pending(v)' => Pending(v) /\ job'[v].request.id = job[v].request.id,
           \A L : Shown(L)' => Shown(L) \/ L = buffer,
           Sound(buffer') => Sound(buffer) /\ Members(buffer') = Members(buffer)
    PROVE  DrawnInv'
<1>1. IdsApart'
  BY DEF DrawnInv, IdsApart
<1>2. ASSUME ~torn', Sound(buffer')
      PROVE  Recorded(buffer)' /\ \A L : Shown(L)' => Agrees(L)'
  <2>1. /\ Sound(buffer) /\ Recorded(buffer) /\ \A L : Shown(L) => Agrees(L)
        /\ \A x, held : NamedGroup(buffer', x, held) <=> NamedGroup(buffer, x, held)
        /\ Nameless(buffer') = Nameless(buffer)
    BY <1>2 DEF DrawnInv, NamedGroup, Nameless
  <2>2. \A L : Recorded(L) => \A x, held : NamedGroup(L, x, held) =>
                  x \in spent' /\ \A v \in Views : Pending(v)' => x # job'[v].request.id
    BY DEF Recorded
  <2>3. Recorded(buffer)'
    BY <2>1, <2>2 DEF Recorded
  <2>4. ASSUME NEW L, Shown(L) \/ L = buffer
        PROVE  /\ Sound(L)
               /\ \A x, held : NamedGroup(L, x, held) =>
                    x \in spent' /\ \A v \in Views : Pending(v)' => x # job'[v].request.id
               /\ \A x, S, T : (NamedGroup(L, x, S) /\ NamedGroup(buffer', x, T)) => S = T
               /\ Nameless(L) = Nameless(buffer')
    <3>1. CASE Shown(L)
      BY <2>1, <2>2, <3>1 DEF Agrees
    <3>2. CASE L = buffer
      BY <2>1, <2>2, <3>2, NamesApart
    <3> QED
      BY <2>4, <3>1, <3>2
  <2>5. ASSUME NEW CONSTANT L, Shown(L)' PROVE Agrees(L)'
    <3>1. Shown(L) \/ L = buffer
      BY <2>5
    <3> QED
      BY <2>4, <3>1 DEF Agrees, Recorded
  <2> QED
    BY <2>3, <2>5
<1> QED
  BY <1>1, <1>2 DEF DrawnInv

\* Where an edit begins, the worker was free, and the id of a new group is a new one.
LEMMA EditBegins ==
    ASSUME BoardEdit \/ InlineEdit
    PROVE  \E v \in Views, step \in {"ask", "write"} : \E request, answer :
             /\ Free(v) /\ BeginEdit(v, step, request, answer)
             /\ request.op = "group" => request.id \notin spent
<1> DEFINE Begins(v) == \E step \in {"ask", "write"} : \E request, answer :
             /\ BeginEdit(v, step, request, answer)
             /\ request.op = "group" => request.id \notin spent
<1>1. ASSUME NEW v \in Views, NEW step \in {"ask", "write"}, NEW keys, NEW id \in FreshId, NEW answer,
             BeginEdit(v, step, [op |-> "group", keys |-> keys, id |-> id], answer)
      PROVE  Begins(v)
  BY <1>1 DEF FreshId
<1>2. ASSUME NEW v \in Views, NEW step \in {"ask", "write"}, NEW request, NEW answer,
             request.op # "group", BeginEdit(v, step, request, answer)
      PROVE  Begins(v)
  BY <1>2
<1> HIDE DEF Begins
<1>3. ASSUME NEW v \in Views, NEW key, UngroupAtoms(v, key) PROVE Begins(v)
  <2>1. [op |-> "ungroup", key |-> key].op # "group"
    OBVIOUS
  <2> QED
    BY <1>2, <1>3, <2>1 DEF UngroupAtoms
<1>4. ASSUME NEW v \in Views, NEW step \in {"ask", "write"}, NEW key, NEW given, RenameGroup(v, step, key, given)
      PROVE  Begins(v)
  <2>1. [op |-> "name"].op # "group"
    OBVIOUS
  <2> QED
    BY <1>2, <1>4, <2>1 DEF RenameGroup
<1>5. CASE BoardEdit
  <2>0. "board" \in Views
    BY DEF Views
  <2>1. ASSUME ReorderAtom PROVE Begins("board")
    <3>1. PICK moved, drop : BeginEdit("board", "write",
               [op |-> "reorder", moved |-> moved, target |-> drop[1], place |-> drop[2]],
               ReorderUnit(buffer, moved, drop[1], drop[2]))
      BY <2>1 DEF ReorderAtom
    <3>2. [op |-> "reorder", moved |-> moved, target |-> drop[1], place |-> drop[2]].op # "group"
      OBVIOUS
    <3> QED
      BY <1>2, <2>0, <3>1, <3>2
  <2>2. ASSUME GroupAtoms PROVE Begins("board")
    BY <1>1, <2>0, <2>2 DEF GroupAtoms
  <2>3. ASSUME ChangeGroupAtoms PROVE Begins("board")
    BY <1>3, <1>4, <2>0, <2>3 DEF ChangeGroupAtoms
  <2>4. ASSUME BoardSaveAttrs PROVE Begins("board")
    <3>1. PICK c, sent : BeginEdit("board", "write",
               [op |-> "attrs", id |-> c.id[2], quiet |-> SameSlug(c.id[2], sent)],
               SaveAttrs(buffer, c.id[2], sent))
      BY <2>4 DEF BoardSaveAttrs
    <3>2. [op |-> "attrs", id |-> c.id[2], quiet |-> SameSlug(c.id[2], sent)].op # "group"
      OBVIOUS
    <3> QED
      BY <1>2, <2>0, <3>1, <3>2
  <2>5. ASSUME SaveAtomBlock PROVE Begins("board")
    <3>1. PICK c, new : BeginEdit("board", "write", [op |-> "block", id |-> c.id[2], text |-> new],
               ReplaceAtomBlock(buffer, c.id[2], new))
      BY <2>5 DEF SaveAtomBlock
    <3>2. [op |-> "block", id |-> c.id[2], text |-> new].op # "group"
      OBVIOUS
    <3> QED
      BY <1>2, <2>0, <3>1, <3>2
  <2>6. ASSUME RefreshDigests PROVE Begins("board")
    <3>1. PICK ids : BeginEdit("board", "write", [op |-> "review", ids |-> ids],
               SetAtomDigests(buffer, ReviewEntries(buffer, ids)))
      BY <2>6 DEF RefreshDigests
    <3>2. [op |-> "review", ids |-> ids].op # "group"
      OBVIOUS
    <3> QED
      BY <1>2, <2>0, <3>1, <3>2
  <2>7. Free("board") /\ Begins("board")
    BY <1>5, <2>4, <2>5, <2>6, <2>1, <2>2, <2>3 DEF BoardEdit
  <2> QED
    BY <2>0, <2>7 DEF Begins
<1>6. CASE InlineEdit
  <2>0. "inline" \in Views
    BY DEF Views
  <2>1. ASSUME OnDecorationDrag PROVE Begins("inline")
    <3>1. PICK moved, drop : BeginEdit("inline", "write",
               [op |-> "reorder", moved |-> moved, target |-> drop[1], place |-> drop[2]],
               ReorderUnit(buffer, moved, drop[1], drop[2]))
      BY <2>1 DEF OnDecorationDrag
    <3>2. [op |-> "reorder", moved |-> moved, target |-> drop[1], place |-> drop[2]].op # "group"
      OBVIOUS
    <3> QED
      BY <1>2, <2>0, <3>1, <3>2
  <2>2. ASSUME RenameHere PROVE Begins("inline")
    <3>1. [op |-> "name"].op # "group"
      OBVIOUS
    <3>2. \/ \E a : BeginEdit("inline", "ask", [op |-> "name"], a)
          \/ \E key, given : RenameGroup("inline", "ask", key, given)
      BY <2>2 DEF RenameHere
    <3> QED
      BY <1>2, <1>4, <2>0, <3>1, <3>2
  <2>3. ASSUME UngroupHere PROVE Begins("inline")
    BY <1>3, <2>0, <2>3 DEF UngroupHere
  <2>4. ASSUME GroupSelection PROVE Begins("inline")
    <3>1. PICK keys \in Groupable(UnitOrder(buffer)), id \in FreshId, given \in Names :
             BeginEdit("inline", "ask", [op |-> "group", keys |-> keys, id |-> id],
                       InsertGroupMarkers(buffer, keys, id, given))
      BY <2>4 DEF GroupSelection
    <3> QED
      BY <1>1, <2>0, <3>1
  <2>5. ASSUME InlineSaveAttrs PROVE Begins("inline")
    <3>1. PICK c, rows : BeginEdit("inline", "write", [op |-> "attrs", id |-> c.id[2], quiet |-> TRUE],
               SetAtomAttrs(buffer, c.id[2], rows))
      BY <2>5 DEF InlineSaveAttrs
    <3>2. [op |-> "attrs", id |-> c.id[2], quiet |-> TRUE].op # "group"
      OBVIOUS
    <3> QED
      BY <1>2, <2>0, <3>1, <3>2
  <2>6. Free("inline") /\ Begins("inline")
    BY <1>6, <2>3, <2>4, <2>5, <2>1, <2>2 DEF InlineEdit
  <2> QED
    BY <2>0, <2>6 DEF Begins
<1> QED
  BY <1>5, <1>6

\* An edit that begins takes a new id, so the cards drawn still tell the
\* truth.
LEMMA DrawnBegins == ViewInv /\ DrawnInv /\ (BoardEdit \/ InlineEdit) => DrawnInv'
<1> SUFFICES ASSUME ViewInv, DrawnInv, BoardEdit \/ InlineEdit PROVE DrawnInv'
  OBVIOUS
<1>0. PICK v \in Views, step \in {"ask", "write"} : \E r, answer :
             /\ Free(v) /\ BeginEdit(v, step, r, answer)
             /\ r.op = "group" => r.id \notin spent
  BY EditBegins
<1>1. PICK r, answer :
             /\ Free(v) /\ BeginEdit(v, step, r, answer)
             /\ r.op = "group" => r.id \notin spent
  BY <1>0
<1> DEFINE k == [step |-> step, request |-> r, old |-> buffer, new |-> answer.text]
<1>2. /\ job' = [job EXCEPT ![v] = k] /\ buffer' = buffer /\ drawn' = drawn /\ torn' = torn
      /\ spent' = IF r.op = "group" THEN spent \cup {r.id} ELSE spent
  BY <1>1 DEF BeginEdit
<1>3. k.step = step /\ k.request = r
  OBVIOUS
<1> HIDE DEF k
<1>4. job = [w \in Views |-> job[w]]
  BY DEF ViewInv
<1>5. job'[v] = k /\ \A w \in Views : w # v => job'[w] = job[w]
  BY <1>2, <1>4
<1>6. \A x \in spent : x \in spent'
  BY <1>2
<1>7. ASSUME NEW w \in Views, Pending(w)'
      PROVE  /\ w # v => Pending(w) /\ job'[w].request.id = job[w].request.id
             /\ w = v => job'[w].request.id = r.id /\ r.id \notin spent /\ r.id \in spent'
  BY <1>1, <1>2, <1>3, <1>5, <1>7 DEF Pending
<1>8. IdsApart'
  <2>1. ASSUME NEW w \in Views, Pending(w)' PROVE job'[w].request.id \in spent'
    BY <1>6, <1>7, <2>1 DEF DrawnInv, IdsApart
  <2>2. ASSUME NEW w \in Views, NEW u \in Views, w # u, Pending(w)', Pending(u)'
        PROVE  job'[w].request.id # job'[u].request.id
    BY <1>7, <2>2 DEF DrawnInv, IdsApart
  <2> QED
    BY <2>1, <2>2 DEF IdsApart
<1>9. ASSUME NEW CONSTANT L, Shown(L)' PROVE Shown(L)
  <2>1. CASE \E w \in Views : L = drawn'[w]
    BY <1>2, <2>1 DEF Shown
  <2>2. CASE job'["board"].step = "draw" /\ L = job'["board"].new
    <3>1. v # "board"
      BY <1>3, <1>5, <2>2
    <3>2. job'["board"] = job["board"]
      BY <1>5, <3>1 DEF Views
    <3> QED
      BY <2>2, <3>2 DEF Shown
  <2> QED
    BY <1>9, <2>1, <2>2 DEF Shown
<1>10. ASSUME NEW CONSTANT L, Recorded(L) PROVE Recorded(L)'
  <2>1. ASSUME NEW CONSTANT x, NEW CONSTANT held, NamedGroup(L, x, held)
        PROVE  x \in spent' /\ \A w \in Views : Pending(w)' => x # job'[w].request.id
    <3>1. x \in spent /\ \A w \in Views : Pending(w) => x # job[w].request.id
      BY <1>10, <2>1 DEF Recorded
    <3> QED
      BY <1>6, <1>7, <3>1
  <2> QED
    BY <2>1 DEF Recorded
<1>11. ASSUME ~torn', Sound(buffer')
       PROVE  Recorded(buffer)' /\ \A L : Shown(L)' => Agrees(L)'
  <2>1. Recorded(buffer) /\ \A L : Shown(L) => Agrees(L)
    BY <1>2, <1>11 DEF DrawnInv
  <2>2. Recorded(buffer)'
    <3>1. ASSUME NEW x, NEW held, NamedGroup(buffer, x, held)
          PROVE  x \in spent' /\ \A w \in Views : Pending(w)' => x # job'[w].request.id
      <4>1. x \in spent /\ \A w \in Views : Pending(w) => x # job[w].request.id
        BY <2>1, <3>1 DEF Recorded
      <4> QED
        BY <1>6, <1>7, <4>1
    <3> QED
      BY <1>2, <3>1 DEF Recorded
  <2>3. ASSUME NEW CONSTANT L, Shown(L)' PROVE Agrees(L)'
    <3>1. Agrees(L)
      BY <1>9, <2>1, <2>3
    <3>2. Recorded(L)'
      BY <1>10, <3>1 DEF Agrees
    <3> QED
      BY <1>2, <3>1, <3>2 DEF Agrees
  <2> QED
    BY <2>2, <2>3
<1> QED
  BY <1>8, <1>11 DEF DrawnInv

\* The steps that begin no edit and write nothing.
LEMMA DrawnGoesOn ==
    ViewInv /\ DrawnInv /\ (Answer \/ Cancel \/ RerenderBoard \/ TypeLine \/ RefreshInline \/ UNCHANGED viewVars)
      => DrawnInv'
<1> SUFFICES ASSUME ViewInv, DrawnInv,
                    Answer \/ Cancel \/ RerenderBoard \/ TypeLine \/ RefreshInline \/ UNCHANGED viewVars
             PROVE  DrawnInv'
  OBVIOUS
<1>1. /\ IsSeq(buffer) /\ job = [v \in Views |-> job[v]] /\ drawn = [v \in Views |-> drawn[v]]
      /\ "inline" \in Views /\ "board" \in Views
  BY DEF ViewInv, Views
<1>2. spent' = spent /\ torn' = torn
  BY DEF Answer, Cancel, RerenderBoard, TypeLine, RefreshInline, viewVars
<1>3. Idle.step = "idle"
  BY DEF Idle
<1>4. ASSUME NEW v \in Views, Pending(v)' PROVE Pending(v) /\ job'[v].request.id = job[v].request.id
  <2>1. CASE Answer
    <3>1. job["inline"].step = "ask" /\ job' = [job EXCEPT !["inline"].step = "write"]
      BY <2>1 DEF Answer
    <3>2. Working(job["inline"])
      BY <1>1, <1>3, <3>1 DEF ViewInv
    <3>3. v # "inline" => job'[v] = job[v]
      BY <1>1, <3>1
    <3>4. v = "inline" => job'[v].request = job[v].request /\ job[v].step = "ask"
      BY <1>1, <3>1, <3>2 DEF Working
    <3> QED
      BY <1>4, <3>3, <3>4 DEF Pending
  <2>2. CASE Cancel \/ RerenderBoard
    <3>1. PICK w \in Views : job' = [job EXCEPT ![w] = Idle]
      BY <1>1, <2>2 DEF Cancel, RerenderBoard
    <3>2. job'[v] = job[v] \/ job'[v] = Idle
      BY <1>1, <3>1
    <3> QED
      BY <1>3, <1>4, <3>2 DEF Pending
  <2>3. CASE TypeLine \/ RefreshInline \/ UNCHANGED viewVars
    <3>1. job' = job
      BY <2>3 DEF TypeLine, RefreshInline, viewVars
    <3> QED
      BY <1>4, <3>1 DEF Pending
  <2> QED
    BY <2>1, <2>2, <2>3
<1>5. ASSUME NEW CONSTANT L, Shown(L)' PROVE Shown(L) \/ L = buffer
  <2>1. CASE Answer \/ Cancel
    <3>1. \E k : job' = [job EXCEPT !["inline"] = k]
      BY <2>1 DEF Answer, Cancel
    <3>2. job'["board"] = job["board"] /\ drawn' = drawn
      BY <1>1, <2>1, <3>1 DEF Answer, Cancel
    <3> QED
      BY <1>5, <3>2 DEF Shown
  <2>2. CASE RerenderBoard
    <3>1. /\ job["board"].step = "draw" /\ drawn' = [drawn EXCEPT !["board"] = job["board"].new]
          /\ job'["board"] = Idle
      BY <1>1, <2>2 DEF RerenderBoard
    <3>2. \A w \in Views : drawn'[w] = drawn[w] \/ drawn'[w] = job["board"].new
      BY <1>1, <3>1
    <3> QED
      BY <1>3, <1>5, <3>1, <3>2 DEF Shown
  <2>3. CASE RefreshInline
    <3>1. job' = job /\ drawn' = [drawn EXCEPT !["inline"] = buffer]
      BY <2>3 DEF RefreshInline
    <3>2. \A w \in Views : drawn'[w] = drawn[w] \/ drawn'[w] = buffer
      BY <1>1, <3>1
    <3> QED
      BY <1>5, <3>1, <3>2 DEF Shown
  <2>4. CASE TypeLine \/ UNCHANGED viewVars
    <3>1. job' = job /\ drawn' = drawn
      BY <2>4 DEF TypeLine, viewVars
    <3> QED
      BY <1>5, <3>1 DEF Shown
  <2> QED
    BY <2>1, <2>2, <2>3, <2>4
<1>6. Sound(buffer') => Sound(buffer) /\ Members(buffer') = Members(buffer)
  <2>1. CASE TypeLine
    <3> DEFINE N == buffer'
    <3>1. N \in Typed(buffer)
      BY <2>1 DEF TypeLine
    <3> HIDE DEF N
    <3>2. IsSeq(N) /\ \E p : Slides(buffer, N, {}, p)
      BY <1>1, <3>1, TypedSlides
    <3>3. Sound(N) => Sound(buffer) /\ Members(N) = Members(buffer)
      BY <1>1, <3>2, SlideSound
    <3> QED
      BY <3>3 DEF N
  <2>2. CASE ~TypeLine
    <3>1. buffer' = buffer
      BY <2>2 DEF Answer, Cancel, RerenderBoard, RefreshInline, viewVars
    <3> QED
      BY <3>1
  <2> QED
    BY <2>1, <2>2
<1> QED
  BY <1>1, <1>2, <1>4, <1>5, <1>6, DrawnCarries

\* A write that meets its text changes the groups as it was asked to.
LEMMA DrawnWrites ==
    ASSUME ViewInv, DrawnInv, NEW v \in Views, ReplaceInEditor(v)
    PROVE  DrawnInv'
<1> DEFINE r == Asked(v)
           M == Members(buffer)
<1>1. /\ IsSeq(buffer) /\ job = [w \in Views |-> job[w]] /\ drawn = [w \in Views |-> drawn[w]]
      /\ "inline" \in Views /\ "board" \in Views
  BY DEF ViewInv, Views
<1>2. Idle.step = "idle"
  BY DEF Idle
<1>3. /\ job[v].step = "write" /\ spent' = spent /\ torn' = (torn \/ ~Meets(v))
  BY DEF ReplaceInEditor
<1>4. Working(job[v])
  BY <1>1, <1>2, <1>3 DEF ViewInv
<1>5. PICK k : /\ job' = [job EXCEPT ![v] = k]
               /\ k = Idle \/ (v = "board" /\ k = [job[v] EXCEPT !.step = "draw"])
  BY <1>1 DEF ReplaceInEditor
<1>6. k.step \in {"idle", "draw"} /\ (k.step = "draw" => v = "board" /\ k.new = job[v].new)
  BY <1>2, <1>4, <1>5 DEF Working
<1>7. job'[v] = k /\ \A w \in Views : w # v => job'[w] = job[w]
  BY <1>1, <1>5
<1>8. ASSUME NEW w \in Views, Pending(w)'
      PROVE  w # v /\ Pending(w) /\ job'[w].request.id = job[w].request.id
  BY <1>6, <1>7, <1>8 DEF Pending
<1>9. IdsApart'
  BY <1>3, <1>8 DEF DrawnInv, IdsApart
<1>10. ASSUME ~torn', Sound(buffer')
       PROVE  Recorded(buffer)' /\ \A L : Shown(L)' => Agrees(L)'
  <2>1. ~torn /\ Landed(v)
    BY <1>3, <1>6, <1>7, <1>10 DEF Landed
  <2>2. [ViewNext]_viewVars
    BY DEF ViewNext
  <2>3. /\ IsSeq(buffer') /\ Paired(buffer) /\ UniqueIds(buffer) /\ buffer' # buffer
        /\ WellPlaced(buffer) /\ Made(r, buffer, buffer')
    BY <2>1, <2>2, LandedMakes
  <2>4. Sound(buffer)
    BY <1>1, <2>3, PairsDoNotNest DEF Sound
  <2>5. Recorded(buffer) /\ \A L : Shown(L) => Agrees(L)
    BY <2>1, <2>4 DEF DrawnInv
  <2>6. ASSUME NEW x, NEW held, NamedGroup(buffer', x, held)
        PROVE  NamedGroup(buffer, x, held) \/ (Pending(v) /\ x = job[v].request.id)
    <3> DEFINE m == <<<<"group", x>>, held>>
    <3>1. Members(buffer') = AsRequested(r, M)
      <4> DEFINE N == buffer'
      <4>1. IsSeq(N) /\ WellPlaced(buffer) /\ N # buffer /\ Made(r, buffer, N)
        BY <2>3
      <4> HIDE DEF N, r, M
      <4>2. Members(N) = AsRequested(r, Members(buffer))
        BY <1>1, <2>3, <4>1, MadeMembers
      <4> QED
        BY <4>2 DEF N, M
    <3>2. m \in AsRequested(r, M)
      BY <2>6, <3>1 DEF NamedGroup
    <3>3. m \in M \/ (r.op = "group" /\ m[1] = <<"group", r.id>>)
      <4>1. CASE r.op = "group"
        <5>1. m \in M \/ m = <<<<"group", r.id>>, {j[2] : j \in {u \in r.keys : u[1] = "atom"}}>>
          <6> HIDE DEF m, M, r
          <6> QED
            BY <3>2, <4>1 DEF AsRequested
        <5>2. m = <<<<"group", r.id>>, {j[2] : j \in {u \in r.keys : u[1] = "atom"}}>> => m[1] = <<"group", r.id>>
          <6> HIDE DEF m, r
          <6> QED
            OBVIOUS
        <5> QED
          BY <4>1, <5>1, <5>2
      <4>2. CASE r.op # "group"
        <5> HIDE DEF m, M, r
        <5> QED
          BY <3>2, <4>2 DEF AsRequested
      <4> QED
        BY <4>1, <4>2
    <3>4. m[1] = <<"group", x>>
      OBVIOUS
    <3>5. m \in M => NamedGroup(buffer, x, held)
      BY DEF NamedGroup
    <3>6. r = job[v].request
      BY DEF Asked
    <3> HIDE DEF m, M, r
    <3>7. m[1] = <<"group", r.id>> => x = r.id
      BY <3>4
    <3> QED
      BY <1>3, <3>3, <3>5, <3>6, <3>7 DEF Pending
  <2>7. ASSUME NEW CONSTANT L, Recorded(L) PROVE Recorded(L)'
    BY <1>3, <1>8, <2>7 DEF Recorded
  <2>8. Recorded(buffer)'
    <3>1. ASSUME NEW x, NEW held, NamedGroup(buffer', x, held)
          PROVE  x \in spent' /\ \A w \in Views : Pending(w)' => x # job'[w].request.id
      <4>1. CASE NamedGroup(buffer, x, held)
        BY <1>3, <1>8, <2>5, <4>1 DEF Recorded
      <4>2. CASE Pending(v) /\ x = job[v].request.id
        <5>1. x \in spent'
          BY <1>3, <4>2 DEF DrawnInv, IdsApart
        <5>2. ASSUME NEW w \in Views, Pending(w)' PROVE x # job'[w].request.id
          BY <1>8, <4>2, <5>2 DEF DrawnInv, IdsApart
        <5> QED
          BY <5>1, <5>2
      <4> QED
        BY <2>6, <3>1, <4>1, <4>2
    <3> QED
      BY <3>1 DEF Recorded
  <2>9. ASSUME NEW CONSTANT L, Shown(L)' PROVE Shown(L) \/ L = buffer'
    <3>1. buffer' = job[v].new
      <4> DEFINE old == job[v].old
                 new == job[v].new
      <4>1. IsSeq(old) /\ IsSeq(new) /\ buffer = old
        BY <1>4, <2>1 DEF Working, Landed, Meets
      <4>2. buffer' = IF InRange(buffer, MinimalEdit(old, new)) THEN ReplaceRange(buffer, MinimalEdit(old, new)) ELSE buffer
        BY DEF ReplaceInEditor
      <4> HIDE DEF old, new
      <4>3. buffer' = new
        BY <4>1, <4>2, MinimalEditIsRight
      <4> QED
        BY <4>3 DEF new
    <3>2. ASSUME NEW w \in Views PROVE drawn'[w] = drawn[w] \/ drawn'[w] = job[v].new
      BY <1>1 DEF ReplaceInEditor
    <3>3. CASE \E w \in Views : L = drawn'[w]
      BY <3>1, <3>2, <3>3 DEF Shown
    <3>4. CASE job'["board"].step = "draw" /\ L = job'["board"].new
      <4>1. CASE v = "board"
        BY <1>6, <1>7, <3>1, <3>4, <4>1
      <4>2. CASE v # "board"
        <5>1. job'["board"] = job["board"]
          BY <1>1, <1>7, <4>2
        <5> QED
          BY <3>4, <5>1 DEF Shown
      <4> QED
        BY <4>1, <4>2
    <3> QED
      BY <2>9, <3>3, <3>4 DEF Shown
  <2>11. Nameless(buffer') = Nameless(buffer)
    <3> DEFINE N == buffer'
    <3>1. IsSeq(N) /\ WellPlaced(buffer) /\ N # buffer /\ Made(r, buffer, N)
      BY <2>3
    <3> HIDE DEF N, r, M
    <3>2. Members(N) = AsRequested(r, Members(buffer))
      BY <1>1, <2>3, <3>1, MadeMembers
    <3>3. CASE r.op = "group"
      <4> DEFINE m == <<<<"group", r.id>>, {j[2] : j \in {u \in r.keys : u[1] = "atom"}}>>
      <4>1. Members(N) = Members(buffer) \cup {m}
        BY <3>2, <3>3 DEF AsRequested
      <4>2. m[1] # <<"faulted">>
        OBVIOUS
      <4> HIDE DEF m
      <4> QED
        BY <4>1, <4>2 DEF Nameless, N
    <3>4. CASE r.op = "ungroup"
      <4>1. Members(N) = {m \in Members(buffer) : m[1] # r.key}
        BY <3>2, <3>4 DEF AsRequested
      <4>2. r.key[1] \in {"group", "line"}
        BY <3>1, <3>4 DEF Made, IsGroupKey
      <4>3. r.key # <<"faulted">>
        BY <4>2
      <4> QED
        BY <4>1, <4>3 DEF Nameless, N
    <3>5. CASE r.op \notin {"group", "ungroup"}
      <4>1. Members(N) = Members(buffer)
        BY <3>2, <3>5 DEF AsRequested
      <4> QED
        BY <4>1 DEF Nameless, N
    <3> QED
      BY <3>3, <3>4, <3>5
  <2>10. ASSUME NEW CONSTANT L, Shown(L)' PROVE Agrees(L)'
    <3>1. CASE Shown(L)
      <4>1. /\ Sound(L) /\ Recorded(L) /\ \A x, S, T : (NamedGroup(L, x, S) /\ NamedGroup(buffer, x, T)) => S = T
            /\ Nameless(L) = Nameless(buffer)
        BY <2>5, <3>1 DEF Agrees
      <4>2. ASSUME NEW x, NEW S, NEW T, NamedGroup(L, x, S), NamedGroup(buffer', x, T) PROVE S = T
        <5>1. ~(Pending(v) /\ x = job[v].request.id)
          BY <4>1, <4>2 DEF Recorded
        <5>2. NamedGroup(buffer, x, T)
          BY <2>6, <4>2, <5>1
        <5> QED
          BY <4>1, <4>2, <5>2
      <4>3. Recorded(L)'
        BY <2>7, <4>1
      <4> QED
        BY <2>11, <4>1, <4>2, <4>3 DEF Agrees
    <3>2. CASE L = buffer'
      <4>1. \A x, S, T : (NamedGroup(L, x, S) /\ NamedGroup(buffer', x, T)) => S = T
        BY <1>10, <2>3, <3>2, NamesApart
      <4>2. Recorded(L)'
        BY <2>8, <3>2 DEF Recorded
      <4> QED
        BY <1>10, <3>2, <4>1, <4>2 DEF Agrees
    <3> QED
      BY <2>9, <2>10, <3>1, <3>2
  <2> QED
    BY <2>8, <2>10
<1> QED
  BY <1>9, <1>10 DEF DrawnInv

\* Every step keeps what is known of the cards that are drawn.
LEMMA DrawnStep == ViewInv /\ DrawnInv /\ [ViewNext]_viewVars => DrawnInv'
BY DrawnBegins, DrawnGoesOn, DrawnWrites DEF ViewNext

\* What a card of an older text is dragged by is the unit its atom is in, or none.
LEMMA DrawnIsSafe == ViewInv /\ DrawnInv => StaleCardsAreSafe
<1> SUFFICES ASSUME ViewInv, DrawnInv, WellPlaced(buffer), ~torn, NEW v \in Views, NEW c \in Explicit(v),
                    FindUnit(ComputeUnits(buffer), UnitKeyForCard(c)) > 0,
                    DirectiveLine(buffer, c.id[2]) > 0
             PROVE  LET units == ComputeUnits(buffer)
                        n == FindUnit(units, UnitKeyForCard(c))
                        at == DirectiveLine(buffer, c.id[2])
                    IN \/ at \in units[n].first..units[n].last
                       \/ /\ units[n].fault # "none"
                          /\ \E m \in DOMAIN units :
                                units[m].fault # "none" /\ at \in units[m].first..units[m].last
  BY DEF StaleCardsAreSafe
<1> DEFINE L == drawn[v]
<1>1. IsSeq(buffer) /\ IsSeq(L)
  BY DEF ViewInv
<1>2. Sound(buffer)
  BY <1>1, PlacedFacts, PairsDoNotNest DEF Sound
<1>3. Agrees(L)
  <2>1. Shown(L)
    BY DEF Shown
  <2> QED
    BY <1>2, <2>1 DEF DrawnInv
<1>4. c \in Range(ParseAtoms(L)) /\ ~IsImplicit(c)
  BY DEF Explicit, Cards
<1> HIDE DEF L
<1>5. /\ FindUnit(ComputeUnits(buffer), UnitKeyForCard(c)) # 0
      /\ DirectiveLine(buffer, c.id[2]) # 0
  OBVIOUS
<1>6. CASE c.group = <<"none">>
  <2>1. UnitKeyForCard(c) = c.id
    BY <1>6 DEF UnitKeyForCard
  <2>2. c.id = <<"atom", c.id[2]>>
    BY <1>1, <1>4, ExplicitCard
  <2> DEFINE a == c.id[2]
  <2>3. UnitKeyForCard(c) = <<"atom", a>>
    BY <2>1, <2>2
  <2> HIDE DEF a
  <2>4. FindUnit(ComputeUnits(buffer), <<"atom", a>>) # 0 /\ DirectiveLine(buffer, a) # 0
    BY <1>5, <2>3 DEF a
  <2>5. LET u == ComputeUnits(buffer)[FindUnit(ComputeUnits(buffer), <<"atom", a>>)]
        IN DirectiveLine(buffer, a) \in u.first..u.last
    BY <1>1, <1>2, <2>4, UnitOfAtom
  <2> QED
    BY <2>3, <2>5 DEF a
<1> DEFINE a == c.id[2]
<1>7. ASSUME c.group # <<"none">>
      PROVE  \E g \in 1..Len(L) :
               /\ L[g].kind = "open" /\ a \in AtomsIn(L, g)
               /\ HasAttr(L[g], "id") => c.group = <<"group", L[g].attrs["id"]>>
               /\ ~HasAttr(L[g], "id") => c.group = <<"line", g>>
  BY <1>1, <1>3, <1>4, <1>7, CardIn DEF Agrees
<1>8. UnitKeyForCard(c) = IF c.group # <<"none">> THEN c.group ELSE c.id
  BY DEF UnitKeyForCard
<1>9. ASSUME c.group # <<"none">>, NEW g \in 1..Len(L), L[g].kind = "open", a \in AtomsIn(L, g),
             HasAttr(L[g], "id"), c.group = <<"group", L[g].attrs["id"]>>
      PROVE  LET u == ComputeUnits(buffer)[FindUnit(ComputeUnits(buffer), UnitKeyForCard(c))]
             IN DirectiveLine(buffer, a) \in u.first..u.last
  <2> DEFINE x == L[g].attrs["id"]
             held == AtomsIn(L, g)
  <2>1. NamedGroup(L, x, held)
    <3>1. IsOpen(L[g], x)
      BY <1>9 DEF IsOpen
    <3> QED
      BY <1>1, <1>3, <3>1, NamedIs DEF Agrees
  <2>2. UnitKeyForCard(c) = <<"group", x>> /\ a \in held
    BY <1>8, <1>9
  <2> HIDE DEF x, held
  <2>3. \E S : NamedGroup(buffer, x, S)
    BY <1>1, <1>2, <1>5, <2>2, FoundGroup
  <2>4. NamedGroup(buffer, x, held)
    BY <1>3, <2>1, <2>3 DEF Agrees
  <2>5. FindUnit(ComputeUnits(buffer), <<"group", x>>) # 0 /\ DirectiveLine(buffer, a) # 0
    BY <1>5, <2>2
  <2> HIDE DEF a
  <2>6. LET u == ComputeUnits(buffer)[FindUnit(ComputeUnits(buffer), <<"group", x>>)]
        IN DirectiveLine(buffer, a) \in u.first..u.last
    BY <1>1, <1>2, <2>2, <2>4, <2>5, UnitHolds
  <2> QED
    BY <2>2, <2>6
<1>10. ASSUME c.group # <<"none">>, NEW g \in 1..Len(L), L[g].kind = "open", a \in AtomsIn(L, g),
              ~HasAttr(L[g], "id"), c.group = <<"line", g>>
       PROVE  LET U == ComputeUnits(buffer)
              IN /\ U[FindUnit(U, UnitKeyForCard(c))].fault # "none"
                 /\ \E m \in DOMAIN U : /\ U[m].fault # "none"
                                        /\ DirectiveLine(buffer, a) \in U[m].first..U[m].last
  <2> DEFINE held == AtomsIn(L, g)
  <2>1. <<<<"faulted">>, held>> \in Nameless(L)
    BY <1>1, <1>3, <1>10, NamelessIs DEF Agrees
  <2>2. UnitKeyForCard(c) = <<"line", g>> /\ a \in held /\ DirectiveLine(buffer, a) # 0
    BY <1>5, <1>8, <1>10
  <2> HIDE DEF held, a
  <2>3. <<<<"faulted">>, held>> \in Nameless(buffer)
    BY <1>3, <2>1 DEF Agrees
  <2>4. FindUnit(ComputeUnits(buffer), <<"line", g>>) # 0
    BY <1>5, <2>2
  <2>5. ComputeUnits(buffer)[FindUnit(ComputeUnits(buffer), <<"line", g>>)].fault # "none"
    BY <1>1, <2>4, FoundNameless
  <2>6. LET U == ComputeUnits(buffer)
        IN \E m \in DOMAIN U : U[m].fault # "none" /\ DirectiveLine(buffer, a) \in U[m].first..U[m].last
    BY <1>1, <1>2, <2>2, <2>3, NamelessHolds
  <2> QED
    BY <2>2, <2>5, <2>6
<1> QED
  <2>1. CASE c.group # <<"none">>
    <3>1. PICK g \in 1..Len(L) :
               /\ L[g].kind = "open" /\ a \in AtomsIn(L, g)
               /\ HasAttr(L[g], "id") => c.group = <<"group", L[g].attrs["id"]>>
               /\ ~HasAttr(L[g], "id") => c.group = <<"line", g>>
      BY <1>7, <2>1
    <3>2. CASE HasAttr(L[g], "id")
      BY <1>9, <2>1, <3>1, <3>2
    <3>3. CASE ~HasAttr(L[g], "id")
      BY <1>10, <2>1, <3>1, <3>3
    <3> QED
      BY <3>2, <3>3
  <2> QED
    BY <1>6, <2>1

\* A card may be drawn from a text that the other view or the user has changed since: as
\* long as no write met another text than it was made for, what it drags is its own block,
\* the group that holds it, or nothing; but for a card of a group without an id, which may
\* drag another group without one (StaleCardsAreSafe).
THEOREM StaleCardsStaySafe == ViewSpec => []StaleCardsAreSafe
<1>1. ViewInit => ViewInv /\ DrawnInv
  BY InitInv, DrawnInit
<1>2. ViewInv /\ DrawnInv /\ [ViewNext]_viewVars => (ViewInv /\ DrawnInv)'
  BY StepInv, DrawnStep
<1>3. ViewInv /\ DrawnInv => StaleCardsAreSafe
  BY DrawnIsSafe
<1> QED
  BY <1>1, <1>2, <1>3, PTL DEF ViewSpec

----------------------------------------
(* What the cards of a text say *)

\* Each directive of an atom has an id and is directly above a block.
Plain(L) == \A i \in 1..Len(L) : L[i].kind = "atom" =>
               HasAttr(L[i], "id") /\ i < Len(L) /\ InBlock(L[i + 1])

\* The block is directly below a directive.
Headed(L, i) == i > 1 /\ L[i - 1].kind = "atom"
BlockText(L, i) == SubSeq(L, i, BlockEnd(L, i))
\* What the card of such a block says.
Saying(L, i, edited) ==
    LET attrs == L[i - 1].attrs
    IN <<<<"atom", attrs["id"]>>, Kept(attrs),
         IF attrs["id"] = edited THEN <<>> ELSE BlockText(L, i)>>

\* A block's run begins below its heading and holds the block.
LEMMA RunFacts ==
    ASSUME NEW L, IsSeq(L), NEW i \in 1..Len(L), InBlock(L[i])
    PROVE  /\ \A k \in RunOf(L, i) : k \in Int /\ Heading(L, i) < k
           /\ \A k \in (Heading(L, i) + 1)..i : k \in RunOf(L, i)
<1> DEFINE next == {j \in i..Len(L) : IsStructural(L[j])}
           h == Heading(L, i)
           last == IF next = {} THEN Len(L) ELSE Min(next) - 1
<1>1. Len(L) \in Nat /\ h \in 0..(i - 1)
  BY SeqDomain, HeadingFacts
<1>2. RunOf(L, i) = (h + 1)..last
  BY DEF RunOf
<1>3. last \in Int /\ i <= last
  <2>1. next \in SUBSET Nat /\ i \notin next /\ \A j \in next : i <= j
    BY <1>1 DEF InBlock
  <2>2. next # {} => Min(next) \in next
    <3> HIDE DEF next
    <3> QED
      BY <2>1, MinFacts
  <2>3. ASSUME next # {} PROVE Min(next) \in Nat /\ i < Min(next)
    <3>1. PICK m \in next : m = Min(next)
      BY <2>2, <2>3
    <3>2. m \in Nat /\ i <= m /\ m # i
      BY <2>1, <3>1
    <3> QED
      BY <1>1, <3>1, <3>2
  <2> HIDE DEF next
  <2> QED
    BY <1>1, <2>3
<1> HIDE DEF h, last
<1> QED
  BY <1>1, <1>2, <1>3 DEF h

\* A block is the one a directive names where it is directly below it.
LEMMA HeadedIs ==
    ASSUME NEW L, IsSeq(L), Plain(L), NEW i \in BlockStarts(L)
    PROVE  /\ IsExplicit(L, i) <=> Headed(L, i)
           /\ Headed(L, i) => Heading(L, i) = i - 1 /\ i - 1 \in 1..Len(L)
<1> DEFINE h == Heading(L, i)
           B == BlocksInRun(L, i)
<1>1. i \in 1..Len(L) /\ InBlock(L[i]) /\ Len(L) \in Nat /\ DOMAIN L = 1..Len(L)
  BY BlockStartsFacts, SeqDomain
<1>2. /\ h \in 0..(i - 1)
      /\ \A j \in 1..(i - 1) : IsStructural(L[j]) => j <= h
  BY <1>1, HeadingFacts
<1>3. /\ \A k \in RunOf(L, i) : k \in Int /\ h < k
      /\ \A k \in (h + 1)..i : k \in RunOf(L, i)
  BY <1>1, RunFacts
<1> HIDE DEF h
<1>4. i \in B /\ B \in SUBSET Nat /\ \A k \in B : h < k
  BY <1>1, <1>2, <1>3, BlockStartsFacts DEF BlocksInRun
<1>5. Min(B) \in B /\ \A k \in B : Min(B) <= k
  <2> HIDE DEF B
  <2> QED
    BY <1>4, MinFacts
<1>6. ASSUME Headed(L, i) PROVE IsExplicit(L, i) /\ h = i - 1 /\ i - 1 \in 1..Len(L)
  <2>1. i - 1 \in 1..(i - 1) /\ i - 1 \in 1..Len(L) /\ L[i - 1].kind = "atom"
    BY <1>1, <1>6 DEF Headed
  <2>2. IsStructural(L[i - 1])
    BY <2>1 DEF Plain, IsStructural, LooksLikeDirectiveLine
  <2>3. h = i - 1
    BY <1>1, <1>2, <2>1, <2>2
  <2>4. Min(B) = i
    <3>1. \A k \in B : i <= k /\ k \in Nat
      BY <1>1, <1>4, <2>3
    <3>2. i <= Min(B) /\ Min(B) \in Nat /\ Min(B) <= i
      BY <1>4, <1>5, <3>1
    <3> QED
      BY <1>1, <3>2
  <2> QED
    BY <1>1, <2>1, <2>3, <2>4 DEF IsExplicit, h
<1>7. ASSUME IsExplicit(L, i) PROVE Headed(L, i)
  <2>1. h > 0 /\ L[h].kind = "atom" /\ i = Min(B)
    BY <1>7 DEF IsExplicit, h
  <2>2. h \in 1..Len(L) /\ h + 1 \in 1..Len(L) /\ (h + 1) - 1 = h
    BY <1>1, <1>2, <2>1
  <2>3. HasAttr(L[h], "id") /\ InBlock(L[h + 1]) /\ ~InBlock(L[h])
    BY <2>1, <2>2 DEF Plain, InBlock, IsStructural, LooksLikeDirectiveLine
  <2>4. h + 1 \in BlockStarts(L)
    BY <1>1, <2>2, <2>3 DEF BlockStarts
  <2>5. h + 1 \in B
    <3>1. h + 1 \in (h + 1)..i
      BY <1>1, <1>2
    <3>2. h + 1 \in RunOf(L, i)
      BY <1>3, <3>1
    <3> QED
      BY <2>4, <3>2 DEF BlocksInRun
  <2>6. i <= h + 1
    BY <1>5, <2>1, <2>5
  <2>7. i = h + 1 /\ i - 1 = h
    BY <1>1, <1>2, <2>6
  <2> QED
    BY <1>1, <2>1, <2>2, <2>7 DEF Headed
<1> QED
  BY <1>6, <1>7 DEF h

\* The cards of a text are those of its blocks: the named ones by what they say, the others
\* by how many there are of a text.
LEMMA ContentIs ==
    ASSUME NEW L, IsSeq(L), Plain(L), NEW edited
    PROVE  /\ Content(L, edited).explicit =
                {Saying(L, i, edited) : i \in {s \in BlockStarts(L) : Headed(L, s)}}
           /\ Content(L, edited).implicit =
                [t \in {BlockText(L, i) : i \in {s \in BlockStarts(L) : ~Headed(L, s)}} |->
                   Cardinality({i \in BlockStarts(L) : ~Headed(L, i) /\ BlockText(L, i) = t})]
<1> DEFINE B == BlockStarts(L)
           A == Ascending(B)
           P == ParseAtoms(L)
           n == Len(P)
           implicit == {k \in DOMAIN P : IsImplicit(P[k])}
           plain == {i \in B : ~Headed(L, i)}
<1>1. /\ n \in Nat /\ DOMAIN P = 1..n
      /\ \A k \in 1..n : A[k] \in B /\ P[k] = CardAt(L, Loose(L), A[k])
      /\ \A i \in B : \E k \in 1..n : A[k] = i
      /\ \A k, m \in 1..n : k < m => A[k] < A[m]
  BY ParseFacts
<1>2. /\ B \in SUBSET (Nat \ {0}) /\ IsFiniteSet(B)
  BY BlockStartsFacts
<1>3. ASSUME NEW k \in 1..n
      PROVE  /\ IsImplicit(P[k]) <=> ~Headed(L, A[k])
             /\ P[k].text = BlockText(L, A[k])
             /\ ~IsImplicit(P[k]) =>
                  <<P[k].id, Kept(P[k].attrs), IF P[k].id[2] = edited THEN <<>> ELSE P[k].text>>
                    = Saying(L, A[k], edited)
  <2>1. A[k] \in B /\ P[k] = CardAt(L, Loose(L), A[k])
    BY <1>1
  <2>2. A[k] \in Loose(L) <=> ~Headed(L, A[k])
    BY <2>1, HeadedIs DEF Loose
  <2>3. Headed(L, A[k]) => Heading(L, A[k]) = A[k] - 1
    BY <2>1, HeadedIs
  <2> DEFINE i == A[k]
             c == P[k]
  <2> HIDE DEF P, A
  <2>4. c = CardAt(L, Loose(L), i)
    BY <2>1
  <2>5. CASE Headed(L, i)
    <3>1. /\ c.id = <<"atom", L[i - 1].attrs["id"]>> /\ c.attrs = L[i - 1].attrs
          /\ c.text = BlockText(L, i)
      <4> HIDE DEF c, i
      <4> QED
        BY <2>2, <2>3, <2>4, <2>5 DEF CardAt, BlockText, i
    <3>2. ~IsImplicit(c) /\ c.id[2] = L[i - 1].attrs["id"]
      BY <3>1 DEF IsImplicit
    <3> QED
      BY <2>5, <3>1, <3>2 DEF Saying
  <2>6. CASE ~Headed(L, i)
    <3>1. c.id[1] = "implicit" /\ c.text = BlockText(L, i)
      <4> HIDE DEF c, i
      <4> QED
        BY <2>2, <2>4, <2>6 DEF CardAt, BlockText, i
    <3> QED
      BY <2>6, <3>1 DEF IsImplicit
  <2> QED
    BY <2>5, <2>6
<1> HIDE DEF B, A, P, n
<1>4. Content(L, edited).explicit = {Saying(L, i, edited) : i \in {s \in B : Headed(L, s)}}
  <2> DEFINE E == {<<P[k].id, Kept(P[k].attrs), IF P[k].id[2] = edited THEN <<>> ELSE P[k].text>> :
                     k \in DOMAIN P \ implicit}
  <2>1. Content(L, edited).explicit = E
    BY DEF Content, P
  <2>2. E = {Saying(L, A[k], edited) : k \in {m \in 1..n : Headed(L, A[m])}}
    BY <1>1, <1>3
  <2>3. {Saying(L, A[k], edited) : k \in {m \in 1..n : Headed(L, A[m])}}
          = {Saying(L, i, edited) : i \in {s \in B : Headed(L, s)}}
    BY <1>1
  <2> QED
    BY <2>1, <2>2, <2>3
<1>5. {P[k].text : k \in implicit} = {BlockText(L, i) : i \in plain}
  BY <1>1, <1>3
<1>6. ASSUME NEW t
      PROVE  Cardinality({k \in implicit : P[k].text = t}) = Cardinality({i \in plain : BlockText(L, i) = t})
  <2> DEFINE S == {k \in implicit : P[k].text = t}
             T == {i \in plain : BlockText(L, i) = t}
             f == [k \in S |-> A[k]]
  <2>1. S = {k \in 1..n : ~Headed(L, A[k]) /\ BlockText(L, A[k]) = t}
    BY <1>1, <1>3
  <2>2. f \in [S -> T]
    BY <1>1, <2>1
  <2>3. \A k, m \in S : f[k] = f[m] => k = m
    <3> SUFFICES ASSUME NEW k \in S, NEW m \in S, f[k] = f[m], k # m PROVE FALSE
      OBVIOUS
    <3>1. k \in 1..n /\ m \in 1..n /\ A[k] = A[m] /\ A[k] \in Nat
      BY <1>1, <1>2, <2>1
    <3>2. k < m \/ m < k
      BY <1>1, <3>1
    <3>3. A[k] < A[m] \/ A[m] < A[k]
      BY <1>1, <3>1, <3>2
    <3> QED
      BY <3>1, <3>3
  <2>4. \A i \in T : \E k \in S : f[k] = i
    BY <1>1, <2>1
  <2>5. IsFiniteSet(S) /\ S \subseteq 1..n
    <3>1. S \subseteq 1..n /\ IsFiniteSet(1..n)
      BY <1>1, <2>1, FS_Interval
    <3> QED
      BY <3>1, FS_Subset
  <2> HIDE DEF S, T, f
  <2>6. f \in Bijection(S, T)
    BY <2>2, <2>3, <2>4 DEF Bijection, Injection, Surjection, IsInjective
  <2>7. Cardinality(T) = Cardinality(S)
    BY <2>5, <2>6, FS_Bijection DEF ExistsBijection
  <2> QED
    BY <2>7 DEF S, T
<1>7. Content(L, edited).implicit =
        [t \in {P[k].text : k \in implicit} |-> Cardinality({k \in implicit : P[k].text = t})]
  BY DEF Content, P
<1>8. Content(L, edited).implicit =
        [t \in {BlockText(L, i) : i \in plain} |-> Cardinality({i \in plain : BlockText(L, i) = t})]
  <2> HIDE DEF implicit, plain
  <2> QED
    BY <1>5, <1>6, <1>7
<1>9. \A t : {i \in plain : BlockText(L, i) = t} = {i \in B : ~Headed(L, i) /\ BlockText(L, i) = t}
  OBVIOUS
<1> QED
  BY <1>4, <1>8, <1>9 DEF B

\* The cards of B say what those of A do: the block at i in A is the one at q[i] in B.
SameCards(A, B, q, edited) ==
    /\ \A i \in BlockStarts(A) :
         /\ q[i] \in BlockStarts(B)
         /\ Headed(B, q[i]) <=> Headed(A, i)
         /\ Headed(A, i) => Saying(B, q[i], edited) = Saying(A, i, edited)
         /\ ~Headed(A, i) => BlockText(B, q[i]) = BlockText(A, i)
    /\ \A i, k \in BlockStarts(A) : q[i] = q[k] => i = k
    /\ \A j \in BlockStarts(B) : \E i \in BlockStarts(A) : q[i] = j

\* Then the contents are the same.
LEMMA SameContent ==
    ASSUME NEW A, NEW B, IsSeq(A), IsSeq(B), Plain(A), Plain(B), NEW q, NEW edited,
           SameCards(A, B, q, edited)
    PROVE  Content(B, edited) = Content(A, edited)
<1> DEFINE S == BlockStarts(A)
           T == BlockStarts(B)
           loose == {i \in S : ~Headed(A, i)}
           free == {j \in T : ~Headed(B, j)}
<1>1. /\ \A i \in S : /\ q[i] \in T /\ (Headed(B, q[i]) <=> Headed(A, i))
                      /\ Headed(A, i) => Saying(B, q[i], edited) = Saying(A, i, edited)
                      /\ ~Headed(A, i) => BlockText(B, q[i]) = BlockText(A, i)
      /\ \A i, k \in S : q[i] = q[k] => i = k
      /\ \A j \in T : \E i \in S : q[i] = j
  BY DEF SameCards
<1>2. IsFiniteSet(S)
  BY BlockStartsFacts
<1> HIDE DEF S, T
<1>3. {Saying(B, j, edited) : j \in {s \in T : Headed(B, s)}}
        = {Saying(A, i, edited) : i \in {s \in S : Headed(A, s)}}
  BY <1>1
<1>4. {BlockText(B, j) : j \in free} = {BlockText(A, i) : i \in loose}
  BY <1>1
<1>5. ASSUME NEW t
      PROVE  Cardinality({j \in T : ~Headed(B, j) /\ BlockText(B, j) = t})
               = Cardinality({i \in S : ~Headed(A, i) /\ BlockText(A, i) = t})
  <2> DEFINE X == {i \in S : ~Headed(A, i) /\ BlockText(A, i) = t}
             Y == {j \in T : ~Headed(B, j) /\ BlockText(B, j) = t}
             f == [i \in X |-> q[i]]
  <2>1. f \in [X -> Y]
    BY <1>1
  <2>2. \A i, k \in X : f[i] = f[k] => i = k
    BY <1>1
  <2>3. \A j \in Y : \E i \in X : f[i] = j
    BY <1>1
  <2>4. IsFiniteSet(X)
    <3>1. X \subseteq S
      OBVIOUS
    <3> QED
      BY <1>2, <3>1, FS_Subset
  <2> HIDE DEF X, Y, f
  <2>5. f \in Bijection(X, Y)
    BY <2>1, <2>2, <2>3 DEF Bijection, Injection, Surjection, IsInjective
  <2>6. Cardinality(Y) = Cardinality(X)
    BY <2>4, <2>5, FS_Bijection DEF ExistsBijection
  <2> QED
    BY <2>6 DEF X, Y
<1> DEFINE P == Content(A, edited)
           Q == Content(B, edited)
<1>6. /\ P.explicit = {Saying(A, i, edited) : i \in {s \in S : Headed(A, s)}}
      /\ P.implicit = [t \in {BlockText(A, i) : i \in loose} |->
                         Cardinality({i \in S : ~Headed(A, i) /\ BlockText(A, i) = t})]
  BY ContentIs DEF S
<1>7. /\ Q.explicit = {Saying(B, i, edited) : i \in {s \in T : Headed(B, s)}}
      /\ Q.implicit = [t \in {BlockText(B, i) : i \in free} |->
                         Cardinality({i \in T : ~Headed(B, i) /\ BlockText(B, i) = t})]
  BY ContentIs DEF T
<1>8. P = [explicit |-> P.explicit, implicit |-> P.implicit]
  BY DEF Content
<1>9. Q = [explicit |-> Q.explicit, implicit |-> Q.implicit]
  BY DEF Content
<1> HIDE DEF P, Q
<1>10. Q.explicit = P.explicit
  BY <1>3, <1>6, <1>7
<1>11. Q.implicit = P.implicit
  <2> DEFINE C(t) == Cardinality({i \in S : ~Headed(A, i) /\ BlockText(A, i) = t})
             D(t) == Cardinality({i \in T : ~Headed(B, i) /\ BlockText(B, i) = t})
             V == {BlockText(A, i) : i \in loose}
             W == {BlockText(B, i) : i \in free}
  <2>1. /\ P.implicit = [t \in V |-> C(t)] /\ Q.implicit = [t \in W |-> D(t)]
        /\ V = W /\ \A t : C(t) = D(t)
    BY <1>4, <1>5, <1>6, <1>7
  <2> HIDE DEF C, D, V, W
  <2> QED
    BY <2>1
<1>12. Q = P
  BY <1>8, <1>9, <1>10, <1>11
<1> QED
  BY <1>12 DEF P, Q

\* The lines cards are made of: directives of atoms and blocks.
Matters(L, i) == i \in 1..Len(L) /\ (L[i].kind = "atom" \/ InBlock(L[i]))
\* The line below continues the block, or begins the one the directive names.
Glued(L, i) == Matters(L, i) /\ i < Len(L) /\ InBlock(L[i + 1])
\* A line and what is left of it: a directive keeps its atom and attributes, but for the
\* name and the digest.
Stands(l, m) ==
    \/ /\ l.kind = "atom" /\ m.kind = "atom" /\ HasAttr(l, "id") /\ HasAttr(m, "id")
       /\ m.attrs["id"] = l.attrs["id"] /\ Kept(m.attrs) = Kept(l.attrs)
    \/ l.kind # "atom" /\ m = l

\* The line i of A is the line p[i] of B, and what was together stays together.
Keeps(A, B, p) ==
    /\ \A i : Matters(A, i) => Matters(B, p[i]) /\ Stands(A[i], B[p[i]])
    /\ \A i, k : (Matters(A, i) /\ Matters(A, k) /\ p[i] = p[k]) => i = k
    /\ \A j : Matters(B, j) => \E i : Matters(A, i) /\ p[i] = j
    /\ \A i : Glued(A, i) => Glued(B, p[i]) /\ p[i + 1] = p[i] + 1
    /\ \A i : (Matters(A, i) /\ Glued(B, p[i])) => Glued(A, i)

\* Where lines are kept, directives stay above their blocks.
LEMMA KeepsPlain ==
    ASSUME NEW A, NEW B, IsSeq(A), IsSeq(B), Plain(A), NEW p, Keeps(A, B, p)
    PROVE  Plain(B)
<1> SUFFICES ASSUME NEW j \in 1..Len(B), B[j].kind = "atom"
             PROVE  HasAttr(B[j], "id") /\ j < Len(B) /\ InBlock(B[j + 1])
  BY DEF Plain
<1>1. PICK i : Matters(A, i) /\ p[i] = j
  BY DEF Keeps, Matters
<1>2. Stands(A[i], B[j])
  BY <1>1 DEF Keeps
<1>3. A[i].kind = "atom" /\ HasAttr(B[j], "id") /\ i \in 1..Len(A)
  BY <1>1, <1>2 DEF Stands, Matters
<1>4. Glued(A, i)
  BY <1>1, <1>3 DEF Plain, Glued
<1>5. Glued(B, j)
  BY <1>1, <1>4 DEF Keeps
<1> QED
  BY <1>3, <1>5 DEF Glued

\* Where a block begins, and with what it continues.
LEMMA StartsAre ==
    ASSUME NEW L, IsSeq(L), Plain(L), NEW i
    PROVE  /\ i \in BlockStarts(L) <=>
                i \in 1..Len(L) /\ InBlock(L[i]) /\ (Glued(L, i - 1) => L[i - 1].kind = "atom")
           /\ Headed(L, i) /\ i \in 1..Len(L) => Glued(L, i - 1) /\ i \in BlockStarts(L)
<1>1. Len(L) \in Nat /\ DOMAIN L = 1..Len(L)
  BY SeqDomain
<1>2. \A k \in 1..Len(L) : L[k].kind = "atom" => ~InBlock(L[k]) /\ k < Len(L) /\ InBlock(L[k + 1])
  BY DEF Plain, InBlock, IsStructural, LooksLikeDirectiveLine
<1>3. ASSUME i \in BlockStarts(L)
      PROVE  i \in 1..Len(L) /\ InBlock(L[i]) /\ (Glued(L, i - 1) => L[i - 1].kind = "atom")
  <2>1. i \in 1..Len(L) /\ InBlock(L[i]) /\ (i = 1 \/ ~InBlock(L[i - 1]))
    BY <1>1, <1>3 DEF BlockStarts
  <2> QED
    BY <1>1, <2>1 DEF Glued, Matters
<1>4. ASSUME i \in 1..Len(L), InBlock(L[i]), Glued(L, i - 1) => L[i - 1].kind = "atom"
      PROVE  i \in BlockStarts(L)
  <2>1. ASSUME i # 1 PROVE ~InBlock(L[i - 1])
    <3>1. i - 1 \in 1..Len(L) /\ i - 1 < Len(L) /\ (i - 1) + 1 = i
      BY <1>1, <1>4, <2>1
    <3>2. InBlock(L[i - 1]) => Glued(L, i - 1)
      BY <1>4, <3>1 DEF Glued, Matters
    <3> QED
      BY <1>2, <1>4, <3>1, <3>2
  <2> QED
    BY <1>1, <1>4, <2>1 DEF BlockStarts
<1>5. ASSUME Headed(L, i), i \in 1..Len(L) PROVE Glued(L, i - 1) /\ i \in BlockStarts(L)
  <2>1. i - 1 \in 1..Len(L) /\ i - 1 < Len(L) /\ (i - 1) + 1 = i /\ L[i - 1].kind = "atom"
    BY <1>1, <1>5 DEF Headed
  <2>2. InBlock(L[i])
    BY <1>2, <2>1
  <2>3. Glued(L, i - 1)
    BY <2>1, <2>2 DEF Glued, Matters
  <2> QED
    BY <1>4, <1>5, <2>1, <2>2, <2>3
<1> QED
  BY <1>3, <1>4, <1>5

\* A block is carried over line by line.
LEMMA KeepsBlock ==
    ASSUME NEW A, NEW B, IsSeq(A), IsSeq(B), Plain(A), NEW p, Keeps(A, B, p),
           NEW i \in 1..Len(A), InBlock(A[i])
    PROVE  p[i] \in 1..Len(B) /\ InBlock(B[p[i]]) /\ BlockText(B, p[i]) = BlockText(A, i)
<1> DEFINE e == BlockEnd(A, i)
           d == BlockEnd(B, p[i])
<1>1. Len(A) \in Nat /\ Len(B) \in Nat
  BY SeqDomain
<1>2. \A k : (k \in 1..Len(A) /\ InBlock(A[k])) =>
          /\ Matters(A, k) /\ p[k] \in 1..Len(B) /\ B[p[k]] = A[k] /\ InBlock(B[p[k]])
  <2> SUFFICES ASSUME NEW k \in 1..Len(A), InBlock(A[k])
               PROVE  Matters(A, k) /\ p[k] \in 1..Len(B) /\ B[p[k]] = A[k] /\ InBlock(B[p[k]])
    OBVIOUS
  <2>1. Matters(A, k) /\ A[k].kind # "atom"
    BY DEF Matters, Plain, InBlock, IsStructural, LooksLikeDirectiveLine
  <2>2. Matters(B, p[k]) /\ Stands(A[k], B[p[k]])
    BY <2>1 DEF Keeps
  <2> QED
    BY <2>1, <2>2 DEF Matters, Stands
<1>3. /\ e \in i..Len(A) /\ \A k \in i..e : InBlock(A[k])
      /\ e < Len(A) => ~InBlock(A[e + 1])
  BY BlockEndFacts
<1>4. /\ p[i] \in 1..Len(B) /\ InBlock(B[p[i]])
  BY <1>2
<1>5. /\ d \in p[i]..Len(B) /\ \A k \in p[i]..d : InBlock(B[k])
      /\ d < Len(B) => ~InBlock(B[d + 1])
      /\ \A j \in p[i]..Len(B) : (\A k \in p[i]..j : InBlock(B[k])) => j <= d
  BY <1>4, BlockEndFacts
<1> HIDE DEF e, d
<1> DEFINE n == e - i + 1
           S == {k \in 1..n : p[i + k - 1] = p[i] + k - 1}
<1>6. n \in Nat /\ n > 0
  BY <1>1, <1>3
<1>7. \A k \in 1..n : k \in S
  <2>1. 1 \in S
    BY <1>1, <1>4, <1>6
  <2>2. ASSUME NEW k \in 1..(n - 1), k \in S PROVE k + 1 \in S
    <3>1. i + k - 1 \in i..e /\ i + k \in i..e /\ i + k - 1 \in 1..Len(A) /\ i + k - 1 < Len(A)
          /\ (i + k - 1) + 1 = i + k /\ i + (k + 1) - 1 = i + k /\ k + 1 \in 1..n
      BY <1>1, <1>3
    <3>2. Glued(A, i + k - 1)
      BY <1>2, <1>3, <3>1 DEF Glued
    <3>3. p[i + k] = p[i + k - 1] + 1
      BY <3>1, <3>2 DEF Keeps
    <3>4. p[i + k - 1] = p[i] + k - 1
      BY <2>2
    <3>5. p[i + k] = p[i] + (k + 1) - 1
      BY <1>4, <3>3, <3>4
    <3> QED
      BY <3>1, <3>5
  <2> HIDE DEF S, n
  <2> QED
    BY <1>6, <2>1, <2>2, StepByStep
<1>8. \A k \in 1..n : /\ p[i] + k - 1 \in 1..Len(B) /\ B[p[i] + k - 1] = A[i + k - 1]
                      /\ InBlock(B[p[i] + k - 1])
  <2> SUFFICES ASSUME NEW k \in 1..n
               PROVE /\ p[i] + k - 1 \in 1..Len(B) /\ B[p[i] + k - 1] = A[i + k - 1]
                     /\ InBlock(B[p[i] + k - 1])
    OBVIOUS
  <2>1. i + k - 1 \in i..e /\ i + k - 1 \in 1..Len(A)
    BY <1>1, <1>3
  <2>2. p[i + k - 1] = p[i] + k - 1
    BY <1>7
  <2> QED
    BY <1>2, <1>3, <2>1, <2>2
<1>9. p[e] = p[i] + (e - i) /\ p[i] + (e - i) \in 1..Len(B)
  <2>1. n \in 1..n /\ i + n - 1 = e /\ p[i] + n - 1 = p[i] + (e - i)
    BY <1>1, <1>3, <1>4, <1>6
  <2>2. p[i + n - 1] = p[i] + n - 1
    BY <1>7, <2>1
  <2>3. p[i] + n - 1 \in 1..Len(B)
    BY <1>8, <2>1
  <2> QED
    BY <2>1, <2>2, <2>3
<1>10. p[i] + (e - i) <= d
  <2>1. ASSUME NEW k \in p[i]..(p[i] + (e - i)) PROVE InBlock(B[k])
    <3> DEFINE f == p[i]
               m == k - f + 1
    <3>1. f \in Int /\ k \in f..(f + (e - i)) /\ e \in Int /\ i \in Int
      BY <1>1, <1>3, <1>4
    <3> HIDE DEF f
    <3>2. m \in 1..n /\ f + m - 1 = k
      BY <3>1
    <3> HIDE DEF m, n
    <3>3. InBlock(B[f + m - 1])
      BY <1>8, <3>2 DEF f
    <3> QED
      BY <3>2, <3>3
  <2>2. p[i] + (e - i) \in p[i]..Len(B)
    BY <1>3, <1>4, <1>9
  <2> QED
    BY <1>5, <2>1, <2>2
<1>11. ~(p[i] + (e - i) < d)
  <2> SUFFICES ASSUME p[i] + (e - i) < d PROVE FALSE
    OBVIOUS
  <2>1. p[e] \in 1..Len(B) /\ p[e] < Len(B) /\ p[e] + 1 \in p[i]..d
    BY <1>1, <1>3, <1>4, <1>5, <1>9
  <2>2. e \in 1..Len(A) /\ InBlock(A[e])
    BY <1>1, <1>3
  <2>3. Matters(A, e) /\ Matters(B, p[e])
    BY <1>2, <2>2 DEF Keeps
  <2>4. Glued(B, p[e])
    BY <1>5, <2>1, <2>3 DEF Glued
  <2>5. Glued(A, e)
    BY <2>3, <2>4 DEF Keeps
  <2> QED
    BY <1>1, <1>3, <2>5 DEF Glued
<1>12. d = p[i] + (e - i)
  BY <1>1, <1>3, <1>4, <1>5, <1>10, <1>11
<1>13. BlockText(B, p[i]) = BlockText(A, i)
  <2>1. /\ i \in Int /\ e \in Int /\ 1 <= i /\ e <= Len(A) /\ i <= e
        /\ p[i] \in Int /\ d \in Int /\ 1 <= p[i] /\ d <= Len(B) /\ p[i] <= d
        /\ d - p[i] + 1 = n
    BY <1>1, <1>3, <1>4, <1>5, <1>12
  <2>2. /\ IsSeq(SubSeq(A, i, e)) /\ Len(SubSeq(A, i, e)) = n
        /\ \A k \in 1..n : SubSeq(A, i, e)[k] = A[i + k - 1]
    BY <2>1, Cutting
  <2>3. /\ IsSeq(SubSeq(B, p[i], d)) /\ Len(SubSeq(B, p[i], d)) = n
        /\ \A k \in 1..n : SubSeq(B, p[i], d)[k] = B[p[i] + k - 1]
    <3> DEFINE f == p[i]
    <3>1. f \in Int /\ d \in Int /\ 1 <= f /\ d <= Len(B) /\ f <= d /\ d - f + 1 = n
      BY <2>1
    <3> HIDE DEF f, n
    <3>2. /\ IsSeq(SubSeq(B, f, d)) /\ Len(SubSeq(B, f, d)) = n
          /\ \A k \in 1..n : SubSeq(B, f, d)[k] = B[f + k - 1]
      BY <3>1, Cutting
    <3> QED
      BY <3>2 DEF f
  <2> HIDE DEF n, S
  <2>4. SubSeq(B, p[i], d) = SubSeq(A, i, e)
    BY <1>8, <2>2, <2>3, SameSeq
  <2> QED
    BY <2>4 DEF BlockText, e, d
<1> QED
  BY <1>4, <1>13

\* Where lines are kept, so are the cards.
LEMMA KeepsCards ==
    ASSUME NEW A, NEW B, IsSeq(A), IsSeq(B), Plain(A), NEW p, Keeps(A, B, p), NEW edited
    PROVE  SameCards(A, B, p, edited)
<1>1. Plain(B) /\ Len(A) \in Nat /\ Len(B) \in Nat
  BY KeepsPlain, SeqDomain
<1>2. \A i \in 1..Len(A) : A[i].kind = "atom" => ~InBlock(A[i])
  BY DEF Plain, InBlock, IsStructural, LooksLikeDirectiveLine
<1>3. ASSUME NEW i, Glued(A, i - 1), i \in 1..Len(A), InBlock(A[i])
      PROVE  /\ Glued(B, p[i] - 1) /\ p[i] = p[i - 1] + 1 /\ p[i] - 1 = p[i - 1]
             /\ B[p[i] - 1].kind = "atom" <=> A[i - 1].kind = "atom"
             /\ A[i - 1].kind = "atom" => /\ B[p[i] - 1].attrs["id"] = A[i - 1].attrs["id"]
                                          /\ Kept(B[p[i] - 1].attrs) = Kept(A[i - 1].attrs)
  <2>1. i - 1 \in 1..Len(A) /\ (i - 1) + 1 = i
    BY <1>1, <1>3 DEF Glued, Matters
  <2>2. Glued(B, p[i - 1]) /\ p[(i - 1) + 1] = p[i - 1] + 1
    BY <1>3 DEF Keeps
  <2>3. p[i - 1] \in 1..Len(B) /\ p[i] = p[i - 1] + 1
    BY <2>1, <2>2 DEF Glued, Matters
  <2>4. p[i] - 1 = p[i - 1]
    BY <1>1, <2>3
  <2>5. Stands(A[i - 1], B[p[i - 1]])
    BY <1>3 DEF Glued, Keeps
  <2> QED
    BY <2>2, <2>3, <2>4, <2>5 DEF Stands
<1>4. ASSUME NEW i \in 1..Len(A), InBlock(A[i]), Glued(B, p[i] - 1)
      PROVE  Glued(A, i - 1)
  <2>1. p[i] \in 1..Len(B)
    BY <1>4, KeepsBlock
  <2>2. Matters(B, p[i] - 1)
    BY <1>4 DEF Glued
  <2>3. PICK k : Matters(A, k) /\ p[k] = p[i] - 1
    BY <2>2 DEF Keeps
  <2>4. Glued(A, k)
    BY <1>4, <2>3 DEF Keeps
  <2>5. p[k + 1] = p[k] + 1 /\ k \in 1..Len(A) /\ k < Len(A) /\ Matters(A, k + 1)
    <3>1. k \in 1..Len(A) /\ k < Len(A) /\ InBlock(A[k + 1])
      BY <2>4 DEF Glued, Matters
    <3>2. k + 1 \in 1..Len(A)
      BY <1>1, <3>1
    <3> QED
      BY <2>4, <3>1, <3>2 DEF Keeps, Matters
  <2>6. p[k + 1] = p[i]
    BY <1>1, <2>1, <2>3, <2>5
  <2>7. k + 1 = i
    BY <1>4, <2>5, <2>6 DEF Keeps, Matters
  <2>8. k = i - 1
    BY <1>1, <2>5, <2>7
  <2> QED
    BY <2>4, <2>8
<1>5. ASSUME NEW i \in BlockStarts(A)
      PROVE  /\ i \in 1..Len(A) /\ InBlock(A[i])
             /\ p[i] \in 1..Len(B) /\ InBlock(B[p[i]]) /\ BlockText(B, p[i]) = BlockText(A, i)
             /\ p[i] \in BlockStarts(B)
  <2>1. i \in 1..Len(A) /\ InBlock(A[i]) /\ (Glued(A, i - 1) => A[i - 1].kind = "atom")
    BY StartsAre
  <2>2. p[i] \in 1..Len(B) /\ InBlock(B[p[i]]) /\ BlockText(B, p[i]) = BlockText(A, i)
    BY <2>1, KeepsBlock
  <2>3. Glued(B, p[i] - 1) => B[p[i] - 1].kind = "atom"
    BY <1>3, <1>4, <2>1
  <2>4. p[i] \in BlockStarts(B)
    BY <1>1, <2>2, <2>3, StartsAre
  <2> QED
    BY <2>1, <2>2, <2>4
<1>6. ASSUME NEW i \in BlockStarts(A)
      PROVE  /\ Headed(B, p[i]) <=> Headed(A, i)
             /\ Headed(A, i) => Saying(B, p[i], edited) = Saying(A, i, edited)
  <2>1. ASSUME Headed(A, i)
        PROVE  Headed(B, p[i]) /\ Saying(B, p[i], edited) = Saying(A, i, edited)
    <3>1. Glued(A, i - 1) /\ A[i - 1].kind = "atom"
      BY <1>5, <2>1, StartsAre DEF Headed
    <3>2. /\ Glued(B, p[i] - 1) /\ B[p[i] - 1].kind = "atom"
          /\ B[p[i] - 1].attrs["id"] = A[i - 1].attrs["id"]
          /\ Kept(B[p[i] - 1].attrs) = Kept(A[i - 1].attrs)
      BY <1>3, <1>5, <3>1
    <3>3. p[i] - 1 \in 1..Len(B) /\ p[i] \in 1..Len(B)
      BY <1>5, <3>2 DEF Glued, Matters
    <3>4. Headed(B, p[i])
      BY <1>1, <3>2, <3>3 DEF Headed
    <3> QED
      BY <1>5, <3>2, <3>4 DEF Saying
  <2>2. ASSUME Headed(B, p[i]) PROVE Headed(A, i)
    <3>1. Glued(B, p[i] - 1) /\ B[p[i] - 1].kind = "atom"
      BY <1>1, <1>5, <2>2, StartsAre DEF Headed
    <3>2. Glued(A, i - 1)
      BY <1>4, <1>5, <3>1
    <3>3. A[i - 1].kind = "atom" /\ i - 1 \in 1..Len(A) /\ i \in 1..Len(A)
      BY <1>3, <1>5, <3>1, <3>2 DEF Glued, Matters
    <3> QED
      BY <1>1, <3>3 DEF Headed
  <2> QED
    BY <2>1, <2>2
<1>7. ASSUME NEW i \in BlockStarts(A), NEW k \in BlockStarts(A), p[i] = p[k] PROVE i = k
  BY <1>5, <1>7 DEF Keeps, Matters
<1>8. ASSUME NEW j \in BlockStarts(B) PROVE \E i \in BlockStarts(A) : p[i] = j
  <2>1. j \in 1..Len(B) /\ InBlock(B[j]) /\ (Glued(B, j - 1) => B[j - 1].kind = "atom")
    BY <1>1, StartsAre
  <2>2. PICK i : Matters(A, i) /\ p[i] = j
    BY <2>1 DEF Keeps, Matters
  <2>3. Stands(A[i], B[j]) /\ i \in 1..Len(A)
    BY <2>2 DEF Keeps, Matters
  <2>4. B[j].kind # "atom"
    BY <1>1, <2>1 DEF Plain, InBlock, IsStructural, LooksLikeDirectiveLine
  <2>5. InBlock(A[i])
    BY <2>1, <2>3, <2>4 DEF Stands
  <2>6. Glued(A, i - 1) => A[i - 1].kind = "atom"
    BY <1>3, <2>1, <2>2, <2>3, <2>5
  <2>7. i \in BlockStarts(A)
    BY <2>3, <2>5, <2>6, StartsAre
  <2> QED
    BY <2>2, <2>7
<1> QED
  BY <1>5, <1>6, <1>7, <1>8 DEF SameCards

\* The text of the lines kept says what it said.
LEMMA KeepsContent ==
    ASSUME NEW A, NEW B, IsSeq(A), IsSeq(B), Plain(A), NEW p, Keeps(A, B, p), NEW edited
    PROVE  Plain(B) /\ Content(B, edited) = Content(A, edited)
<1>1. Plain(B) /\ SameCards(A, B, p, edited)
  BY KeepsPlain, KeepsCards
<1> QED
  BY <1>1, SameContent

----------------------------------------
(* Edits of single lines *)

\* A well placed page is plain, and only an opening marker is directly above
\* a block, with none above it.
LEMMA PlainPlaced ==
    ASSUME NEW L, IsSeq(L), WellPlaced(L)
    PROVE  /\ Plain(L)
           /\ \A i \in 1..Len(L) : (IsMarker(L[i]) /\ i < Len(L) /\ InBlock(L[i + 1])) =>
                L[i].kind = "open" /\ (i > 1 => ~InBlock(L[i - 1]))
<1>1. DOMAIN L = 1..Len(L)
  BY SeqDomain
<1> QED
  BY <1>1 DEF WellPlaced, Plain, Markers, IsMarker

\* Under Plain what a line is made of follows from its kind.
LEMMA PlainLine ==
    ASSUME NEW L, Plain(L), NEW i \in 1..Len(L)
    PROVE  /\ InBlock(L[i]) <=> ~IsBoundary(L[i])
           /\ Matters(L, i) => ~IsBlank(L[i]) /\ ~IsMarker(L[i]) /\ L[i].kind # "doc"
           /\ ~Matters(L, i) => ~InBlock(L[i])
  BY DEF Plain, InBlock, IsStructural, IsBoundary, LooksLikeDirectiveLine, Matters, IsMarker, IsBlank

\* A line that matters stands for itself.
LEMMA StandsItself ==
    ASSUME NEW L, Plain(L), NEW i \in 1..Len(L)
    PROVE  Stands(L[i], L[i])
  BY DEF Plain, Stands

\* An edit that leaves every line in its place and every directive what it
\* says changes no card.
LEMMA PlaceContent ==
    ASSUME NEW A, NEW B, IsSeq(A), IsSeq(B), Plain(A), Len(B) = Len(A),
           \A i \in 1..Len(A) : /\ B[i].kind = A[i].kind
                                /\ A[i].kind = "atom" => Stands(A[i], B[i])
                                /\ A[i].kind \notin {"atom", "open"} => B[i] = A[i],
           NEW edited
    PROVE  Content(B, edited) = Content(A, edited)
<1> DEFINE p == [i \in 1..Len(A) |-> i]
<1>1. Len(A) \in Nat
  BY SeqDomain
<1>2. \A i \in 1..Len(A) : p[i] = i
  OBVIOUS
<1> HIDE DEF p
<1>3. ASSUME NEW i \in 1..Len(A)
      PROVE  /\ InBlock(B[i]) <=> InBlock(A[i])
             /\ Matters(B, i) <=> Matters(A, i)
             /\ Matters(A, i) => Stands(A[i], B[i])
  <2>1. CASE A[i].kind = "atom"
    <3>1. /\ HasAttr(A[i], "id") /\ HasAttr(B[i], "id") /\ B[i].kind = "atom" /\ Stands(A[i], B[i])
      BY <2>1 DEF Stands
    <3> QED
      BY <2>1, <3>1 DEF InBlock, IsStructural, LooksLikeDirectiveLine, Matters
  <2>2. CASE A[i].kind = "open"
    <3>1. B[i].kind = "open"
      BY <2>2
    <3> QED
      BY <2>2, <3>1 DEF InBlock, IsStructural, LooksLikeDirectiveLine, Matters
  <2>3. CASE A[i].kind \notin {"atom", "open"}
    <3>1. B[i] = A[i]
      BY <2>3
    <3> QED
      BY <2>3, <3>1 DEF Matters, Stands
  <2> QED
    BY <2>1, <2>2, <2>3
<1>4. ASSUME NEW i \in 1..Len(A) PROVE Glued(B, i) <=> Glued(A, i)
  <2>1. i < Len(A) => i + 1 \in 1..Len(A)
    BY <1>1
  <2> QED
    BY <1>3, <2>1 DEF Glued
<1>5. Keeps(A, B, p)
  <2>1. \A i : Matters(A, i) => i \in 1..Len(A)
    BY DEF Matters
  <2>2. \A j : Matters(B, j) => j \in 1..Len(A)
    BY DEF Matters
  <2>3. \A i : Matters(A, i) => Matters(B, p[i]) /\ Stands(A[i], B[p[i]])
    BY <1>2, <1>3, <2>1
  <2>4. \A i, k : (Matters(A, i) /\ Matters(A, k) /\ p[i] = p[k]) => i = k
    BY <1>2, <2>1
  <2>5. \A j : Matters(B, j) => \E i : Matters(A, i) /\ p[i] = j
    BY <1>2, <1>3, <2>2
  <2>6. ASSUME NEW i, Glued(A, i) PROVE Glued(B, p[i]) /\ p[i + 1] = p[i] + 1
    <3>1. i \in 1..Len(A) /\ i < Len(A)
      BY <2>6 DEF Glued, Matters
    <3>2. i + 1 \in 1..Len(A)
      BY <1>1, <3>1
    <3> QED
      BY <1>2, <1>4, <2>6, <3>1, <3>2
  <2>7. \A i : (Matters(A, i) /\ Glued(B, p[i])) => Glued(A, i)
    BY <1>2, <1>4, <2>1
  <2> QED
    BY <2>3, <2>4, <2>5, <2>6, <2>7 DEF Keeps
<1> QED
  BY <1>5, KeepsContent

\* Neither does one line replaced by one that stands for it.
LEMMA PatchContent ==
    ASSUME NEW L, IsSeq(L), Plain(L), NEW at \in 1..Len(L), NEW x,
           x.kind = L[at].kind, L[at].kind \in {"atom", "open"},
           L[at].kind = "atom" => Stands(L[at], x), NEW edited
    PROVE  Content(Patched(L, at, x), edited) = Content(L, edited)
<1> DEFINE N == Patched(L, at, x)
<1>1. IsSeq(N) /\ Len(N) = Len(L) /\ N[at] = x /\ \A i \in 1..Len(L) : i # at => N[i] = L[i]
  BY PatchedFacts
<1> HIDE DEF N
<1>2. \A i \in 1..Len(L) : /\ N[i].kind = L[i].kind
                           /\ L[i].kind = "atom" => Stands(L[i], N[i])
                           /\ L[i].kind \notin {"atom", "open"} => N[i] = L[i]
  BY <1>1, StandsItself
<1>3. Content(N, edited) = Content(L, edited)
  BY <1>1, <1>2, PlaceContent
<1> QED
  BY <1>3 DEF N

\* Neither does a rename of an atom or of a group.
LEMMA NameContent ==
    ASSUME NEW L, IsSeq(L), Plain(L), NEW id, NEW given, NEW N,
           SetAtomSlug(L, id, given) = Rewritten(N) \/ SetGroupSlug(L, id, given) = Rewritten(N),
           NEW edited
    PROVE  Content(N, edited) = Content(L, edited)
<1>1. CASE SetAtomSlug(L, id, given) = Rewritten(N)
  <2>1. PICK at \in 1..Len(L) :
          IsAtom(L[at], id) /\ N = Patched(L, at, AtomTag(Renamed(L[at].attrs, given)))
    BY <1>1, AtomNameIs
  <2> DEFINE a == L[at].attrs
             b == Renamed(a, given)
             x == AtomTag(b)
  <2>2. /\ Kept(b) = Kept(a) /\ ("id" \in DOMAIN b <=> "id" \in DOMAIN a)
        /\ "id" \in DOMAIN a => b["id"] = a["id"]
    BY RenamedFacts
  <2>3. x.kind = "atom" /\ x.attrs = b /\ L[at].kind = "atom" /\ HasAttr(L[at], "id")
    BY <2>1 DEF AtomTag, IsAtom
  <2> HIDE DEF b
  <2>4. Stands(L[at], x)
    BY <2>2, <2>3 DEF Stands, HasAttr
  <2> HIDE DEF x
  <2>5. Content(Patched(L, at, x), edited) = Content(L, edited)
    BY <2>3, <2>4, PatchContent
  <2> QED
    BY <2>1, <2>5 DEF x, b
<1>2. CASE SetGroupSlug(L, id, given) = Rewritten(N)
  <2>1. PICK at \in 1..Len(L) :
          IsOpen(L[at], id) /\ N = Patched(L, at, Open(Renamed(L[at].attrs, given)))
    BY <1>2, GroupNameIs
  <2> DEFINE x == Open(Renamed(L[at].attrs, given))
  <2>2. x.kind = "open" /\ L[at].kind = "open"
    BY <2>1 DEF Open, IsOpen
  <2> HIDE DEF x
  <2>3. Content(Patched(L, at, x), edited) = Content(L, edited)
    BY <2>2, PatchContent
  <2> QED
    BY <2>1, <2>3 DEF x
<1> QED
  BY <1>1, <1>2

\* What is saved for an atom is what its directive says, but for the name and the digest.
SavesSame(L, id, sent) ==
    \A i \in 1..Len(L) : IsAtom(L[i], id) => Kept(Saved(id, sent)) = Kept(L[i].attrs)

\* Neither does an attribute editor that saves what the directive says.
LEMMA AttrsContent ==
    ASSUME NEW L, IsSeq(L), Plain(L), NEW id, NEW sent, NEW N, SaveAttrs(L, id, sent) = Rewritten(N),
           SavesSame(L, id, sent), NEW edited
    PROVE  Content(N, edited) = Content(L, edited)
<1>1. PICK at \in 1..Len(L) : IsAtom(L[at], id) /\ N = Patched(L, at, AtomTag(Saved(id, sent)))
  BY SaveIs
<1> DEFINE b == Saved(id, sent)
           x == AtomTag(b)
<1>2. "id" \in DOMAIN b /\ b["id"] = id /\ Kept(b) = Kept(L[at].attrs)
  BY <1>1, SavedFacts DEF SavesSame
<1>3. /\ x.kind = "atom" /\ x.attrs = b /\ L[at].kind = "atom" /\ HasAttr(L[at], "id")
      /\ L[at].attrs["id"] = id
  BY <1>1 DEF AtomTag, IsAtom
<1> HIDE DEF b
<1>4. Stands(L[at], x)
  BY <1>2, <1>3 DEF Stands, HasAttr
<1> HIDE DEF x
<1>5. Content(Patched(L, at, x), edited) = Content(L, edited)
  BY <1>3, <1>4, PatchContent
<1> QED
  BY <1>1, <1>5 DEF x, b

\* Neither does a review.
LEMMA ReviewContent ==
    ASSUME NEW L, IsSeq(L), Plain(L), NEW entries, NEW N, SetAtomDigests(L, entries) = Rewritten(N),
           NEW edited
    PROVE  Content(N, edited) = Content(L, edited)
<1>1. /\ IsSeq(N) /\ Len(N) = Len(L)
      /\ \A i \in 1..Len(L) : N[i] = Stamped(L[i], entries)
  BY ReviewIs
<1>2. ASSUME NEW i \in 1..Len(L)
      PROVE  /\ N[i].kind = L[i].kind
             /\ L[i].kind = "atom" => Stands(L[i], N[i])
             /\ L[i].kind \notin {"atom", "open"} => N[i] = L[i]
  <2> DEFINE l == L[i]
             m == N[i]
  <2>1. /\ m.kind = l.kind
        /\ m.kind # "atom" => m = l
        /\ m.kind = "atom" => (HasAttr(m, "id") <=> HasAttr(l, "id"))
        /\ m.kind = "atom" => Kept(m.attrs) = Kept(l.attrs)
        /\ (m.kind = "atom" /\ HasAttr(l, "id")) => m.attrs["id"] = l.attrs["id"]
    BY <1>1, StampedFacts
  <2>2. l.kind = "atom" => HasAttr(l, "id")
    BY DEF Plain
  <2> HIDE DEF l, m
  <2>3. l.kind = "atom" => Stands(l, m)
    BY <2>1, <2>2 DEF Stands
  <2> QED
    BY <2>1, <2>3 DEF l, m
<1> QED
  BY <1>1, <1>2, PlaceContent

----------------------------------------
(* Edits that move lines *)

\* The lines that matter in A are lines of B as they are, those of B are lines of A, and a
\* block goes on where it did.
Copies(A, B, p) ==
    /\ \A i : Matters(A, i) => p[i] \in 1..Len(B) /\ B[p[i]] = A[i]
    /\ \A i, k : (Matters(A, i) /\ Matters(A, k) /\ p[i] = p[k]) => i = k
    /\ \A j : Matters(B, j) => \E i : Matters(A, i) /\ p[i] = j
    /\ \A i : Glued(A, i) => p[i + 1] = p[i] + 1
    /\ \A i : (Matters(A, i) /\ Glued(B, p[i])) => Glued(A, i)

\* Where lines are copied so, the cards say what they said.
LEMMA CopiesContent ==
    ASSUME NEW A, NEW B, IsSeq(A), IsSeq(B), Plain(A), NEW p, Copies(A, B, p), NEW edited
    PROVE  Plain(B) /\ Content(B, edited) = Content(A, edited)
<1>1. Len(A) \in Nat /\ Len(B) \in Nat
  BY SeqDomain
<1>2. ASSUME NEW i, Matters(A, i) PROVE Matters(B, p[i]) /\ Stands(A[i], B[p[i]])
  <2>1. p[i] \in 1..Len(B) /\ B[p[i]] = A[i] /\ i \in 1..Len(A)
    BY <1>2 DEF Copies, Matters
  <2>2. Matters(B, p[i])
    BY <1>2, <2>1 DEF Matters
  <2> QED
    BY <2>1, <2>2, StandsItself
<1>3. ASSUME NEW i, Glued(A, i) PROVE Glued(B, p[i])
  <2>1. i \in 1..Len(A) /\ i + 1 \in 1..Len(A) /\ InBlock(A[i + 1]) /\ Matters(A, i)
    BY <1>1, <1>3 DEF Glued, Matters
  <2>2. Matters(A, i + 1)
    BY <2>1 DEF Matters
  <2>3. p[i + 1] = p[i] + 1 /\ p[i + 1] \in 1..Len(B) /\ B[p[i + 1]] = A[i + 1]
    BY <1>3, <2>2 DEF Copies
  <2>4. Matters(B, p[i]) /\ p[i] \in 1..Len(B)
    BY <1>2, <2>1 DEF Matters
  <2>5. p[i] < Len(B) /\ InBlock(B[p[i] + 1])
    BY <1>1, <2>1, <2>3, <2>4
  <2> QED
    BY <2>4, <2>5 DEF Glued
<1>4. Keeps(A, B, p)
  BY <1>2, <1>3 DEF Copies, Keeps
<1> QED
  BY <1>4, KeepsContent

\* No block goes on where a unit begins.
LEMMA SeamAbove ==
    ASSUME NEW L, IsSeq(L), Plain(L), NEW s \in UnitStarts(L)
    PROVE  ~Glued(L, s - 1)
<1>1. /\ s \in 1..Len(L) /\ s \in (PreambleEnd(L) + 1)..Len(L)
      /\ LooksLikeDirectiveLine(L[s]) \/ UnitEndsAbove(L, s)
  BY StartFacts
<1>2. /\ PreambleEnd(L) \in 0..Len(L) /\ Len(L) \in Nat
      /\ PreambleEnd(L) # 0 => L[PreambleEnd(L)].kind = "doc"
  BY PreambleFacts, SeqDomain
<1> SUFFICES ASSUME Glued(L, s - 1) PROVE FALSE
  OBVIOUS
<1>3. s - 1 \in 1..Len(L) /\ (s - 1) + 1 = s /\ Matters(L, s - 1) /\ InBlock(L[s])
  BY <1>1, <1>2 DEF Glued, Matters
<1>4. ~LooksLikeDirectiveLine(L[s])
  BY <1>1, <1>3, PlainLine DEF IsBoundary
<1>5. ~IsBlank(L[s - 1]) /\ ~IsMarker(L[s - 1]) /\ L[s - 1].kind # "doc"
  BY <1>3, PlainLine
<1>6. s # PreambleEnd(L) + 1
  BY <1>2, <1>3, <1>5
<1> QED
  BY <1>1, <1>4, <1>5, <1>6 DEF UnitEndsAbove, IsMarker

\* Where the lines of a text are in the one with the group.
Under(L, f, t) ==
    [i \in 1..Len(L) |-> IF i < f THEN i ELSE IF i <= t THEN i + 1 ELSE i + 2]

\* Where a line is once the markers are put above line f and below line t.
Shift(f, t, i) == IF i < f THEN i ELSE IF i <= t THEN i + 1 ELSE i + 2

\* Putting two markers around lines keeps lines apart that were apart.
LEMMA ShiftIsInjective ==
    ASSUME NEW f \in Int, NEW t \in Int, f <= t, NEW i \in Int, NEW k \in Int,
           Shift(f, t, i) = Shift(f, t, k)
    PROVE  i = k
<1>1. ASSUME NEW u \in Int, NEW w \in Int, u < w
      PROVE  Shift(f, t, u) < Shift(f, t, w) /\ Shift(f, t, u) \in Int /\ Shift(f, t, w) \in Int
  <2>1. CASE w < f
    BY <1>1, <2>1 DEF Shift
  <2>2. CASE f <= w /\ w <= t
    BY <1>1, <2>2 DEF Shift
  <2>3. CASE t < w
    BY <1>1, <2>3 DEF Shift
  <2> QED
    BY <2>1, <2>2, <2>3
<1>2. CASE i < k
  BY <1>1, <1>2
<1>3. CASE k < i
  BY <1>1, <1>3
<1> QED
  BY <1>2, <1>3

\* Markers put where no block goes on change no card.
LEMMA GroupedContent ==
    ASSUME NEW L, NEW f, NEW t, NEW attrs, NEW N, Grouped(L, f, t, attrs, N), Plain(L),
           ~Glued(L, f - 1), ~Glued(L, t), NEW edited
    PROVE  Content(N, edited) = Content(L, edited)
<1> DEFINE p == Under(L, f, t)
<1>1. /\ IsSeq(L) /\ IsSeq(N) /\ Len(L) \in Nat /\ Len(N) = Len(L) + 2
      /\ f \in 1..Len(L) /\ t \in f..Len(L)
      /\ \A i \in 1..(f - 1) : N[i] = L[i]
      /\ N[f] = Open(attrs)
      /\ \A i \in (f + 1)..(t + 1) : N[i] = L[i - 1]
      /\ N[t + 2] = Close
      /\ \A i \in (t + 3)..(Len(L) + 2) : N[i] = L[i - 2]
  BY DEF Grouped
<1>2. ASSUME NEW i \in 1..Len(L)
      PROVE  /\ p[i] = IF i < f THEN i ELSE IF i <= t THEN i + 1 ELSE i + 2
             /\ p[i] \in 1..Len(N) /\ N[p[i]] = L[i] /\ p[i] # f /\ p[i] # t + 2
  <2>1. p[i] = IF i < f THEN i ELSE IF i <= t THEN i + 1 ELSE i + 2
    BY DEF Under
  <2> HIDE DEF p
  <2>2. CASE i < f
    BY <1>1, <2>1, <2>2
  <2>3. CASE f <= i /\ i <= t
    <3>1. p[i] = i + 1 /\ i + 1 \in (f + 1)..(t + 1) /\ (i + 1) - 1 = i
      BY <1>1, <2>1, <2>3
    <3>2. N[i + 1] = L[i]
      BY <1>1, <3>1
    <3> QED
      BY <1>1, <2>1, <2>3, <3>1, <3>2
  <2>4. CASE t < i
    <3>1. p[i] = i + 2 /\ i + 2 \in (t + 3)..(Len(L) + 2) /\ (i + 2) - 2 = i
      BY <1>1, <2>1, <2>4
    <3>2. N[i + 2] = L[i]
      BY <1>1, <3>1
    <3> QED
      BY <1>1, <2>1, <2>4, <3>1, <3>2
  <2> QED
    BY <1>1, <2>2, <2>3, <2>4, <2>1
<1>3. ~InBlock(N[f]) /\ ~InBlock(N[t + 2]) /\ N[f].kind # "atom" /\ N[t + 2].kind # "atom"
  BY <1>1 DEF Open, Close, InBlock, IsStructural, LooksLikeDirectiveLine
<1> HIDE DEF p
<1>4. ASSUME NEW j, Matters(N, j) PROVE \E i : Matters(L, i) /\ p[i] = j
  <2>1. j \in 1..Len(N) /\ j # f /\ j # t + 2 /\ (N[j].kind = "atom" \/ InBlock(N[j]))
    BY <1>3, <1>4 DEF Matters
  <2> DEFINE i == IF j < f THEN j ELSE IF j < t + 2 THEN j - 1 ELSE j - 2
  <2>2. /\ i \in 1..Len(L)
        /\ j = IF i < f THEN i ELSE IF i <= t THEN i + 1 ELSE i + 2
    BY <1>1, <2>1
  <2> HIDE DEF i
  <2>3. p[i] = j /\ N[j] = L[i]
    BY <1>2, <2>2
  <2> QED
    BY <2>1, <2>2, <2>3 DEF Matters
<1>5. ASSUME NEW i, Glued(L, i) PROVE p[i + 1] = p[i] + 1
  <2>1. i \in 1..Len(L) /\ i + 1 \in 1..Len(L) /\ i # f - 1 /\ i # t
    BY <1>1, <1>5 DEF Glued, Matters
  <2> QED
    BY <1>1, <1>2, <2>1
<1>6. ASSUME NEW i, Matters(L, i), Glued(N, p[i]) PROVE Glued(L, i)
  <2>1. i \in 1..Len(L) /\ p[i] \in 1..Len(N) /\ p[i] < Len(N) /\ InBlock(N[p[i] + 1])
    BY <1>6 DEF Glued, Matters
  <2>2. p[i] + 1 # f /\ p[i] + 1 # t + 2
    BY <1>3, <2>1
  <2>3. i # f - 1 /\ i # t
    BY <1>1, <1>2, <2>1, <2>2
  <2>4. i < Len(L) /\ i + 1 \in 1..Len(L) /\ p[i + 1] = p[i] + 1
    <3>1. i < Len(L)
      BY <1>1, <1>2, <2>1, <2>3
    <3> QED
      BY <1>1, <1>2, <2>1, <2>3, <3>1
  <2>5. InBlock(L[i + 1])
    BY <1>2, <2>1, <2>4
  <2> QED
    BY <1>6, <2>4, <2>5 DEF Glued
<1>7. \A i : Matters(L, i) => i \in 1..Len(L)
  BY DEF Matters
<1>8. \A i, k : (Matters(L, i) /\ Matters(L, k) /\ p[i] = p[k]) => i = k
  <2> SUFFICES ASSUME NEW i, NEW k, Matters(L, i), Matters(L, k), p[i] = p[k] PROVE i = k
    OBVIOUS
  <2>1. i \in 1..Len(L) /\ k \in 1..Len(L)
    BY <1>7
  <2>2. /\ p[i] = IF i < f THEN i ELSE IF i <= t THEN i + 1 ELSE i + 2
        /\ p[k] = IF k < f THEN k ELSE IF k <= t THEN k + 1 ELSE k + 2
    BY <1>2, <2>1
  <2>3. i \in Int /\ k \in Int /\ f \in Int /\ t \in Int /\ f <= t
    BY <1>1, <2>1
  <2>4. /\ Shift(f, t, i) = p[i]
        /\ Shift(f, t, k) = p[k]
    BY <2>2 DEF Shift
  <2> QED
    BY <2>3, <2>4, ShiftIsInjective
<1>9. Copies(L, N, p)
  BY <1>2, <1>4, <1>5, <1>6, <1>7, <1>8 DEF Copies
<1> QED
  BY <1>1, <1>9, CopiesContent

\* A group's markers are put between blocks.
LEMMA GroupContent ==
    ASSUME NEW L, IsSeq(L), Paired(L), Plain(L), NEW keys, NEW id, NEW given,
           NEW N, InsertGroupMarkers(L, keys, id, given) = Rewritten(N), NEW edited
    PROVE  Content(N, edited) = Content(L, edited)
<1> DEFINE U == ComputeUnits(L)
           attrs == NewGroup(id, given)
<1>1. PICK a \in 1..Len(U) : \E b \in a..Len(U) :
              /\ \A n \in a..b : U[n].kind # "group"
              /\ N = Around(L, U[a].first, U[b].last, Open(attrs))
  BY GroupIs
<1>2. PICK b \in a..Len(U) :
              /\ \A n \in a..b : U[n].kind # "group"
              /\ N = Around(L, U[a].first, U[b].last, Open(attrs))
  BY <1>1
<1> DEFINE f == U[a].first
           t == U[b].last
           s == U[b].first
<1>3. /\ f \in UnitStarts(L) /\ f \in 1..Len(L) /\ t \in f..Len(L)
      /\ \A k \in f..t : ~IsMarker(L[k])
  BY <1>2, PlainRun
<1>4. GroupLine(L, f) = 0
  BY <1>3, StartFacts
<1>5. s \in 1..Len(L) /\ t = UnitEnd(L, s) /\ L[s].kind # "open"
  <2>1. b \in 1..Len(U) /\ U[b].kind # "group" /\ b \in a..b
    <3>1. Len(U) \in Nat
      BY UnitLines
    <3>2. b \in 1..Len(U) /\ b \in a..b
      BY <3>1
    <3> QED
      BY <1>2, <3>2
  <2>2. s \in UnitStarts(L) /\ s \in 1..Len(L) /\ t = UnitEnd(L, s)
    BY <2>1, UnitLines
  <2>3. U[b].kind = UnitKind(L[s])
    BY <2>1, ComputeFacts
  <2> QED
    BY <2>1, <2>2, <2>3 DEF UnitKind
<1> HIDE DEF attrs, f, t, s
<1>6. N = Around(L, f, t, Open(attrs))
  BY <1>2 DEF f, t
<1>7. Grouped(L, f, t, attrs, N)
  <2>1. /\ IsSeq(N) /\ Len(N) = Len(L) + 2
        /\ \A i \in 1..(f - 1) : N[i] = L[i]
        /\ N[f] = Open(attrs)
        /\ \A i \in (f + 1)..(t + 1) : N[i] = L[i - 1]
        /\ N[t + 2] = Close
        /\ \A i \in (t + 3)..(Len(L) + 2) : N[i] = L[i - 2]
    BY <1>3, <1>6, AroundFacts
  <2>2. Len(L) \in Nat
    BY SeqDomain
  <2> QED
    BY <1>3, <1>4, <2>1, <2>2 DEF Grouped
<1>8. ~Glued(L, f - 1)
  BY <1>3, SeamAbove
<1>9. ~Glued(L, t)
  <2>1. t < Len(L) => IsBoundary(L[t + 1]) /\ t + 1 \in 1..Len(L)
    BY <1>3, <1>5, PlainEnd, SeqDomain
  <2> QED
    BY <2>1, PlainLine DEF Glued
<1> QED
  BY <1>7, <1>8, <1>9, GroupedContent

\* Without the line x nothing joins that it kept apart.
Seamless(s, x) ==
    /\ x \in 1..Len(s) /\ ~Matters(s, x)
    /\ ~(Matters(s, x - 1) /\ x < Len(s) /\ InBlock(s[x + 1]))

\* Taking out such a line changes no card.
LEMMA CutContent ==
    ASSUME NEW s, IsSeq(s), Plain(s), NEW x, Seamless(s, x), NEW edited
    PROVE  LET t == RemoveAt(s, x) IN Plain(t) /\ Content(t, edited) = Content(s, edited)
<1> DEFINE t == RemoveAt(s, x)
           p == Below(s, x)
<1>1. Len(s) \in Nat /\ x \in 1..Len(s) /\ ~Matters(s, x)
  BY SeqDomain DEF Seamless
<1>2. /\ IsSeq(t) /\ Len(t) = Len(s) - 1
      /\ \A i \in 1..(x - 1) : t[i] = s[i]
      /\ \A i \in x..(Len(s) - 1) : t[i] = s[i + 1]
  BY <1>1, Removed
<1> HIDE DEF t
<1>3. ASSUME NEW i \in 1..Len(s) PROVE p[i] = IF i < x THEN i ELSE i - 1
  BY DEF Below
<1> HIDE DEF p
<1>4. ASSUME NEW i \in 1..Len(s), i # x PROVE p[i] \in 1..Len(t) /\ t[p[i]] = s[i]
  <2>1. CASE i < x
    BY <1>1, <1>2, <1>3, <2>1
  <2>2. CASE x < i
    <3>1. p[i] = i - 1 /\ i - 1 \in x..(Len(s) - 1) /\ (i - 1) + 1 = i
      BY <1>1, <1>3, <2>2
    <3>2. t[i - 1] = s[i]
      BY <1>2, <3>1
    <3> QED
      BY <1>1, <1>2, <3>1, <3>2
  <2> QED
    BY <1>1, <1>4, <2>1, <2>2
<1>5. \A i : Matters(s, i) => i \in 1..Len(s) /\ i # x
  BY <1>1 DEF Matters
<1>6. \A i, k : (Matters(s, i) /\ Matters(s, k) /\ p[i] = p[k]) => i = k
  BY <1>1, <1>3, <1>5
<1>7. ASSUME NEW j, Matters(t, j) PROVE \E i : Matters(s, i) /\ p[i] = j
  <2> DEFINE i == IF j < x THEN j ELSE j + 1
  <2>1. j \in 1..Len(t) /\ (t[j].kind = "atom" \/ InBlock(t[j]))
    BY <1>7 DEF Matters
  <2>2. i \in 1..Len(s) /\ i # x /\ j = IF i < x THEN i ELSE i - 1
    BY <1>1, <1>2, <2>1
  <2> HIDE DEF i
  <2>3. p[i] = j /\ t[j] = s[i]
    BY <1>3, <1>4, <2>2
  <2> QED
    BY <2>1, <2>2, <2>3 DEF Matters
<1>8. ASSUME NEW i, Glued(s, i) PROVE p[i + 1] = p[i] + 1
  <2>1. i \in 1..Len(s) /\ i + 1 \in 1..Len(s) /\ i # x /\ InBlock(s[i + 1])
    BY <1>1, <1>8 DEF Glued, Matters
  <2>2. i + 1 # x
    BY <1>1, <2>1 DEF Matters
  <2> QED
    BY <1>1, <1>3, <2>1, <2>2
<1>9. ASSUME NEW i, Matters(s, i), Glued(t, p[i]) PROVE Glued(s, i)
  <2>1. i \in 1..Len(s) /\ i # x /\ p[i] \in 1..Len(t) /\ p[i] < Len(t) /\ InBlock(t[p[i] + 1])
    BY <1>5, <1>9 DEF Glued, Matters
  <2>2. CASE i + 1 = x
    <3>1. p[i] + 1 = x /\ x \in x..(Len(s) - 1) /\ x < Len(s) /\ x - 1 = i
      BY <1>1, <1>2, <1>3, <2>1, <2>2
    <3>2. InBlock(s[x + 1])
      BY <1>2, <2>1, <3>1
    <3> QED
      BY <1>9, <3>1, <3>2 DEF Seamless
  <2>3. CASE i + 1 # x
    <3>1. i < Len(s) /\ i + 1 \in 1..Len(s) /\ p[i + 1] = p[i] + 1
      <4>1. i < Len(s)
        BY <1>1, <1>2, <1>3, <2>1, <2>3
      <4> QED
        BY <1>1, <1>3, <2>1, <2>3, <4>1
    <3>2. InBlock(s[i + 1])
      BY <1>4, <2>1, <2>3, <3>1
    <3> QED
      BY <1>9, <3>1, <3>2 DEF Glued
  <2> QED
    BY <2>2, <2>3
<1>10. Copies(s, t, p)
  BY <1>4, <1>5, <1>6, <1>7, <1>8, <1>9 DEF Copies
<1>11. Plain(t) /\ Content(t, edited) = Content(s, edited)
  BY <1>2, <1>10, CopiesContent
<1> QED
  BY <1>11 DEF t

\* Neither does taking out the blank line it would double.
LEMMA CollapseContent ==
    ASSUME NEW s, IsSeq(s), Plain(s), NEW x, Seamless(s, x), NEW edited
    PROVE  LET t == RemoveLineCollapsingSeam(s, x) IN
           IsSeq(t) /\ Plain(t) /\ Content(t, edited) = Content(s, edited)
<1> DEFINE r == RemoveLineCollapsingSeam(s, x)
           t == RemoveAt(s, x)
<1>1. x \in 1..Len(s)
  BY DEF Seamless
<1>2. /\ IsSeq(t) /\ Len(t) = Len(s) - 1 /\ Len(t) \in Nat
      /\ \/ r = t
         \/ /\ r = RemoveAt(t, x)
            /\ x > 1 /\ x \in 1..Len(t) /\ IsBlank(t[x - 1]) /\ IsBlank(t[x])
  BY <1>1, CollapseIs
<1>3. Plain(t) /\ Content(t, edited) = Content(s, edited)
  BY CutContent
<1> HIDE DEF r, t
<1>4. CASE r = t
  BY <1>2, <1>3, <1>4 DEF r
<1>5. CASE r = RemoveAt(t, x) /\ x > 1 /\ x \in 1..Len(t) /\ IsBlank(t[x - 1]) /\ IsBlank(t[x])
  <2>1. x - 1 \in 1..Len(t)
    BY <1>2, <1>5
  <2>2. ~Matters(t, x) /\ ~Matters(t, x - 1)
    BY <1>3, <1>5, <2>1, PlainLine
  <2>3. Seamless(t, x)
    BY <1>5, <2>2 DEF Seamless
  <2>4. Plain(r) /\ Content(r, edited) = Content(t, edited)
    BY <1>2, <1>3, <1>5, <2>3, CutContent
  <2>5. IsSeq(r)
    BY <1>2, <1>5, Removed
  <2> QED
    BY <1>3, <2>4, <2>5 DEF r
<1> QED
  BY <1>2, <1>4, <1>5

\* Where markers are taken away nothing joins.
LEMMA UngroupContent ==
    ASSUME NEW L, IsSeq(L), WellPlaced(L), Paired(L), NEW key, IsGroupKey(key), ~GroupFault(L, key),
           NEW N, RemoveGroupMarkers(L, key) = Rewritten(N), NEW edited
    PROVE  Content(N, edited) = Content(L, edited)
<1>1. PICK o \in 1..Len(L) : \E c \in (o + 1)..Len(L) :
        /\ L[o].kind = "open" /\ L[c].kind = "close"
        /\ N = RemoveLineCollapsingSeam(RemoveLineCollapsingSeam(L, c), o)
  BY UngroupMarkers
<1>2. PICK c \in (o + 1)..Len(L) :
        /\ L[o].kind = "open" /\ L[c].kind = "close"
        /\ N = RemoveLineCollapsingSeam(RemoveLineCollapsingSeam(L, c), o)
  BY <1>1
<1> DEFINE M == RemoveLineCollapsingSeam(L, c)
<1>3. /\ Plain(L) /\ Len(L) \in Nat /\ c \in 1..Len(L) /\ o < c
      /\ \A i \in 1..Len(L) : (IsMarker(L[i]) /\ i < Len(L) /\ InBlock(L[i + 1])) =>
           L[i].kind = "open" /\ (i > 1 => ~InBlock(L[i - 1]))
  BY PlainPlaced, SeqDomain
<1>4. IsMarker(L[o]) /\ IsMarker(L[c]) /\ ~IsBlank(L[o]) /\ ~InBlock(L[o])
  BY <1>2 DEF IsMarker, IsBlank, InBlock, IsStructural, LooksLikeDirectiveLine
<1>5. ~Matters(L, c) /\ ~Matters(L, o)
  BY <1>3, <1>4, PlainLine
<1>6. c < Len(L) => ~InBlock(L[c + 1])
  BY <1>2, <1>3, <1>4
<1>7. Seamless(L, c)
  BY <1>3, <1>5, <1>6 DEF Seamless
<1>8. IsSeq(M) /\ Plain(M) /\ Content(M, edited) = Content(L, edited)
  BY <1>3, <1>7, CollapseContent
<1>9. \A i \in 1..(c - 1) : M[i] = L[i] /\ i \in 1..Len(M)
  BY <1>3, BeforeCut
<1>10. ASSUME o + 1 = c, o < Len(M) PROVE ~InBlock(M[o + 1])
  <2>1. /\ \/ M = RemoveAt(L, c)
           \/ IsBlank(RemoveAt(L, c)[c - 1])
        /\ Len(RemoveAt(L, c)) = Len(L) - 1
    BY <1>3, CollapseIs
  <2>2. RemoveAt(L, c)[c - 1] = L[o]
    <3>1. c - 1 \in 1..(c - 1) /\ c - 1 = o
      BY <1>3, <1>10
    <3> QED
      BY <1>3, <3>1, Removed
  <2>3. M = RemoveAt(L, c)
    BY <1>4, <2>1, <2>2
  <2>4. c < Len(L) /\ c \in c..(Len(L) - 1)
    BY <1>3, <1>10, <2>1, <2>3
  <2>5. RemoveAt(L, c)[c] = L[c + 1]
    BY <1>3, <2>4, Removed
  <2> QED
    BY <1>6, <1>10, <2>3, <2>4, <2>5
<1>11. M[o] = L[o] /\ o \in 1..Len(M)
  BY <1>3, <1>9
<1> HIDE DEF M
<1>12. Seamless(M, o)
  <2>1. ~Matters(M, o)
    BY <1>4, <1>8, <1>11, PlainLine
  <2> SUFFICES ASSUME Matters(M, o - 1), o < Len(M), InBlock(M[o + 1]) PROVE FALSE
    BY <1>11, <2>1 DEF Seamless
  <2>2. o > 1 /\ o - 1 \in 1..(c - 1) /\ o + 1 < c
    BY <1>3, <1>10 DEF Matters
  <2>3. M[o - 1] = L[o - 1] /\ M[o + 1] = L[o + 1]
    <3>1. o + 1 \in 1..(c - 1)
      BY <1>3, <2>2
    <3> QED
      BY <1>9, <2>2, <3>1
  <2>4. ~InBlock(L[o - 1])
    BY <1>3, <1>4, <2>2, <2>3
  <2>5. L[o - 1].kind = "atom"
    BY <2>3, <2>4 DEF Matters
  <2>6. InBlock(L[(o - 1) + 1])
    BY <1>3, <2>2, <2>5 DEF Plain
  <2>7. (o - 1) + 1 = o
    BY <1>3
  <2> QED
    BY <1>4, <2>6, <2>7
<1>13. Content(N, edited) = Content(M, edited)
  BY <1>2, <1>8, <1>12, CollapseContent DEF M
<1> QED
  BY <1>8, <1>13

\* A text and the one with its units laid out in another order.
Relaid(L, order, N, g) == IsSeq(L) /\ Paired(L) /\ Plain(L) /\ Permutes(L, order) /\ Laid(L, N, order, g)

\* The line i of a unit is laid out at the line j.
Goes(L, order, g, i, j) ==
    \E k \in 1..Units(L) : \E a \in 0..Reach(L, order, k) : i = From(L, order, k) + a /\ j = g[k] + a

\* Where a line goes it is what it was, below the preamble.
LEMMA GoesLine ==
    ASSUME NEW L, NEW order, NEW N, NEW g, Relaid(L, order, N, g), NEW i, NEW j, Goes(L, order, g, i, j)
    PROVE  /\ i \in 1..Len(L) /\ j \in 1..Len(N) /\ PreambleEnd(L) < j /\ N[j] = L[i]
           /\ Len(L) \in Nat /\ Len(N) \in Nat
<1>1. PICK k \in 1..Units(L) : \E a \in 0..Reach(L, order, k) : i = From(L, order, k) + a /\ j = g[k] + a
  BY DEF Goes
<1>2. PICK a \in 0..Reach(L, order, k) : i = From(L, order, k) + a /\ j = g[k] + a
  BY <1>1
<1>3. UnitCopy(L, N, order, g, k)
  BY LaidUnit DEF Relaid
<1> DEFINE f == From(L, order, k)
           r == Reach(L, order, k)
           h == g[k]
<1>4. /\ f \in 1..Len(L) /\ r \in Nat /\ f + r \in 1..Len(L)
      /\ h \in Nat /\ PreambleEnd(L) < h /\ h \in 1..Len(N) /\ h + r \in 1..Len(N)
  BY <1>3 DEF UnitCopy
<1>5. N[h + a] = L[f + a]
  BY <1>3 DEF UnitCopy
<1>6. Len(L) \in Nat /\ Len(N) \in Nat /\ PreambleEnd(L) \in 0..Len(N)
  <2>1. IsSeq(L)
    BY DEF Relaid
  <2>2. Len(N) \in Nat /\ PreambleEnd(L) \in 0..Len(N)
    BY LaidApart DEF Relaid
  <2> QED
    BY <2>1, <2>2, SeqDomain
<1>7. a \in 0..r /\ i = f + a /\ j = h + a
  BY <1>2
<1> HIDE DEF f, r, h
<1>8. i \in 1..Len(L) /\ j \in 1..Len(N) /\ PreambleEnd(L) < j
  BY <1>4, <1>6, <1>7
<1> QED
  BY <1>5, <1>6, <1>7, <1>8

\* Every line that matters goes to one place.
LEMMA GoesSome ==
    ASSUME NEW L, NEW order, NEW N, NEW g, Relaid(L, order, N, g), NEW i, Matters(L, i)
    PROVE  \E j : Goes(L, order, g, i, j)
<1> DEFINE U == ComputeUnits(L)
<1>1. IsSeq(L) /\ Paired(L) /\ Plain(L) /\ Permutes(L, order) /\ i \in 1..Len(L)
  BY DEF Relaid, Matters
<1>2. ~IsBlank(L[i]) /\ L[i].kind # "doc"
  BY <1>1, PlainLine
<1>3. PreambleEnd(L) < i
  <2>1. /\ PreambleEnd(L) \in 0..Len(L) /\ Len(L) \in Nat
        /\ \A j \in 1..PreambleEnd(L) : IsBlank(L[j]) \/ L[j].kind = "doc"
    BY <1>1, PreambleFacts, SeqDomain
  <2> QED
    BY <1>1, <1>2, <2>1
<1>4. PICK c \in 1..Len(U) : ~(i < U[c].first \/ U[c].last < i)
  BY <1>1, <1>2, <1>3, UnitLines
<1>5. U[c].first \in 1..Len(L) /\ U[c].last \in 1..Len(L) /\ Len(L) \in Nat
  BY <1>1, UnitLines, SeqDomain
<1>6. PICK k \in 1..Len(U) : order[k] = c
  BY <1>1 DEF Permutes
<1>7. From(L, order, k) = U[c].first /\ Reach(L, order, k) = U[c].last - U[c].first /\ k \in 1..Units(L)
  BY <1>6 DEF From, First, Reach, Units
<1> DEFINE a == i - U[c].first
<1>8. a \in 0..Reach(L, order, k) /\ i = From(L, order, k) + a
  BY <1>1, <1>4, <1>5, <1>7
<1> HIDE DEF a
<1>9. Goes(L, order, g, i, g[k] + a)
  BY <1>7, <1>8 DEF Goes
<1> QED
  BY <1>9

\* It goes to one place only.
LEMMA GoesOne ==
    ASSUME NEW L, NEW order, NEW N, NEW g, Relaid(L, order, N, g), NEW i, NEW j, NEW m,
           Goes(L, order, g, i, j), Goes(L, order, g, i, m)
    PROVE  j = m
<1>1. PICK k \in 1..Units(L) : \E a \in 0..Reach(L, order, k) : i = From(L, order, k) + a /\ j = g[k] + a
  BY DEF Goes
<1>2. PICK a \in 0..Reach(L, order, k) : i = From(L, order, k) + a /\ j = g[k] + a
  BY <1>1
<1>3. PICK l \in 1..Units(L) : \E b \in 0..Reach(L, order, l) : i = From(L, order, l) + b /\ m = g[l] + b
  BY DEF Goes
<1>4. PICK b \in 0..Reach(L, order, l) : i = From(L, order, l) + b /\ m = g[l] + b
  BY <1>3
<1>5. IsSeq(L) /\ Paired(L) /\ Permutes(L, order)
  BY DEF Relaid
<1>6. From(L, order, k) + a = From(L, order, l) + b
  BY <1>2, <1>4
<1>7. k = l /\ a = b
  BY <1>5, <1>6, SourcesApart
<1> QED
  BY <1>2, <1>4, <1>7

\* A line that matters in the new text comes from one of the old one.
LEMMA ComesFrom ==
    ASSUME NEW L, NEW order, NEW N, NEW g, Relaid(L, order, N, g), NEW j, Matters(N, j)
    PROVE  \E i : Goes(L, order, g, i, j) /\ Matters(L, i)
<1>1. /\ IsSeq(L) /\ Paired(L) /\ Plain(L) /\ Permutes(L, order) /\ Laid(L, N, order, g)
      /\ j \in 1..Len(N) /\ (N[j].kind = "atom" \/ InBlock(N[j]))
  BY DEF Relaid, Matters
<1>2. /\ Len(N) \in Nat /\ PreambleEnd(L) \in 0..Len(N)
      /\ \A p \in 1..PreambleEnd(L) : N[p] = L[p]
  BY <1>1, LaidApart
<1>3. ~IsBlank(N[j]) /\ N[j].kind # "doc"
  BY <1>1 DEF IsBlank, InBlock, IsStructural, LooksLikeDirectiveLine
<1>4. PreambleEnd(L) < j
  <2>1. \A k \in 1..PreambleEnd(L) : IsBlank(L[k]) \/ L[k].kind = "doc"
    BY <1>1, PreambleFacts
  <2> QED
    BY <1>1, <1>2, <1>3, <2>1
<1>5. PICK k \in 1..Units(L) : \E i \in 0..Reach(L, order, k) :
        j = g[k] + i /\ N[j] = L[From(L, order, k) + i] /\ From(L, order, k) + i \in 1..Len(L)
  BY <1>1, <1>3, <1>4, CopyOf
<1>6. PICK a \in 0..Reach(L, order, k) :
        j = g[k] + a /\ N[j] = L[From(L, order, k) + a] /\ From(L, order, k) + a \in 1..Len(L)
  BY <1>5
<1> DEFINE i == From(L, order, k) + a
<1>7. Goes(L, order, g, i, j)
  BY <1>6 DEF Goes
<1>8. Matters(L, i)
  BY <1>1, <1>6 DEF Matters
<1> QED
  BY <1>7, <1>8

\* A line of a unit below one of another is the first of its unit.
LEMMA UnitsMeet ==
    ASSUME NEW L, NEW order, NEW N, NEW g, Relaid(L, order, N, g),
           NEW k \in 1..Units(L), NEW l \in 1..Units(L),
           NEW a \in 0..Reach(L, order, k), NEW b \in 0..Reach(L, order, l)
    PROVE  /\ g[k] + a = g[l] + b => k = l /\ a = b
           /\ g[k] + a + 1 = g[l] + b => (k = l /\ b = a + 1) \/ (k < l /\ b = 0)
<1>1. UnitCopy(L, N, order, g, k) /\ UnitCopy(L, N, order, g, l)
  BY LaidUnit DEF Relaid
<1> DEFINE r == Reach(L, order, k)
           t == Reach(L, order, l)
           x == g[k]
           y == g[l]
<1>2. r \in Nat /\ t \in Nat /\ x \in Nat /\ y \in Nat
  BY <1>1 DEF UnitCopy
<1>3. (k < l => x + r < y) /\ (l < k => y + t < x) /\ Units(L) \in Nat
  BY LaidApart DEF Relaid
<1>4. a \in 0..r /\ b \in 0..t
  OBVIOUS
<1>5. k \in Nat /\ l \in Nat
  BY <1>3
<1> HIDE DEF r, t, x, y
<1>6. CASE k = l
  <2>1. x = y
    BY <1>6 DEF x, y
  <2>2. x + a = y + b => a = b
    BY <1>2, <1>4, <2>1
  <2>3. x + a + 1 = y + b => b = a + 1
    BY <1>2, <1>4, <2>1
  <2> QED
    BY <1>6, <2>2, <2>3 DEF x, y
<1>7. CASE k < l
  <2>1. ~(x + a = y + b) /\ (x + a + 1 = y + b => b = 0)
    BY <1>2, <1>3, <1>4, <1>7
  <2> QED
    BY <1>7, <2>1 DEF x, y
<1>8. CASE l < k
  <2>1. ~(x + a = y + b) /\ ~(x + a + 1 = y + b)
    BY <1>2, <1>3, <1>4, <1>8
  <2> QED
    BY <2>1 DEF x, y
<1> QED
  BY <1>5, <1>6, <1>7, <1>8

\* And no two lines go to the same.
LEMMA GoesApart ==
    ASSUME NEW L, NEW order, NEW N, NEW g, Relaid(L, order, N, g), NEW i, NEW m, NEW j,
           Goes(L, order, g, i, j), Goes(L, order, g, m, j)
    PROVE  i = m
<1>1. PICK k \in 1..Units(L) : \E a \in 0..Reach(L, order, k) : i = From(L, order, k) + a /\ j = g[k] + a
  BY DEF Goes
<1>2. PICK a \in 0..Reach(L, order, k) : i = From(L, order, k) + a /\ j = g[k] + a
  BY <1>1
<1>3. PICK l \in 1..Units(L) : \E b \in 0..Reach(L, order, l) : m = From(L, order, l) + b /\ j = g[l] + b
  BY DEF Goes
<1>4. PICK b \in 0..Reach(L, order, l) : m = From(L, order, l) + b /\ j = g[l] + b
  BY <1>3
<1>5. g[k] + a = g[l] + b
  BY <1>2, <1>4
<1>6. k = l /\ a = b
  BY <1>5, UnitsMeet
<1> QED
  BY <1>2, <1>4, <1>6

\* What goes on in a block is laid out together.
LEMMA LaidTogether ==
    ASSUME NEW L, NEW order, NEW N, NEW g, Relaid(L, order, N, g), NEW i, NEW j,
           Goes(L, order, g, i, j), Glued(L, i)
    PROVE  Goes(L, order, g, i + 1, j + 1)
<1>1. PICK k \in 1..Units(L) : \E a \in 0..Reach(L, order, k) : i = From(L, order, k) + a /\ j = g[k] + a
  BY DEF Goes
<1>2. PICK a \in 0..Reach(L, order, k) : i = From(L, order, k) + a /\ j = g[k] + a
  BY <1>1
<1> DEFINE f == From(L, order, k)
           r == Reach(L, order, k)
           h == g[k]
<1>3. UnitCopy(L, N, order, g, k)
  BY LaidUnit DEF Relaid
<1>4. /\ f \in 1..Len(L) /\ r \in Nat /\ f + r \in 1..Len(L) /\ UnitEnd(L, f) = f + r /\ h \in Nat
      /\ L[f].kind = "open" => L[f + r].kind = "close"
  BY <1>3 DEF UnitCopy
<1>5. IsSeq(L) /\ Plain(L) /\ Len(L) \in Nat
  BY SeqDomain DEF Relaid
<1>6. i \in 1..Len(L) /\ i < Len(L) /\ InBlock(L[i + 1]) /\ Matters(L, i)
  BY DEF Glued, Matters
<1>7. a \in 0..r /\ i = f + a /\ j = h + a
  BY <1>2
<1>8. a # r
  <2> SUFFICES ASSUME a = r PROVE FALSE
    OBVIOUS
  <2>1. ~IsMarker(L[i])
    BY <1>5, <1>6, PlainLine
  <2>2. L[f].kind # "open"
    BY <1>4, <1>7, <2>1 DEF IsMarker
  <2>3. UnitEnd(L, f) < Len(L) => IsBoundary(L[UnitEnd(L, f) + 1])
    BY <1>4, <1>5, <2>2, PlainEnd
  <2>4. IsBoundary(L[i + 1])
    BY <1>4, <1>6, <1>7, <2>3
  <2>5. i + 1 \in 1..Len(L)
    BY <1>5, <1>6
  <2> QED
    BY <1>5, <1>6, <2>4, <2>5, PlainLine
<1>9. a + 1 \in 0..r /\ i + 1 = f + (a + 1) /\ j + 1 = h + (a + 1)
  <2> HIDE DEF f, r, h
  <2> QED
    BY <1>4, <1>7, <1>8
<1> QED
  BY <1>9 DEF Goes

\* What is laid out together went on in a block.
LEMMA CameTogether ==
    ASSUME NEW L, NEW order, NEW N, NEW g, Relaid(L, order, N, g), NEW i, NEW j,
           Goes(L, order, g, i, j), Matters(L, i), Glued(N, j)
    PROVE  Glued(L, i)
<1>1. PICK k \in 1..Units(L) : \E a \in 0..Reach(L, order, k) : i = From(L, order, k) + a /\ j = g[k] + a
  BY DEF Goes
<1>2. PICK a \in 0..Reach(L, order, k) : i = From(L, order, k) + a /\ j = g[k] + a
  BY <1>1
<1>3. /\ i \in 1..Len(L) /\ j \in 1..Len(N) /\ N[j] = L[i] /\ Len(L) \in Nat /\ Len(N) \in Nat
  BY GoesLine
<1>4. j + 1 \in 1..Len(N) /\ InBlock(N[j + 1])
  BY <1>3 DEF Glued
<1>5. Matters(N, j + 1)
  BY <1>4 DEF Matters
<1>6. PICK m : Goes(L, order, g, m, j + 1) /\ Matters(L, m)
  BY <1>5, ComesFrom
<1>7. m \in 1..Len(L) /\ InBlock(L[m])
  BY <1>4, <1>6, GoesLine
<1>8. PICK l \in 1..Units(L) : \E b \in 0..Reach(L, order, l) : m = From(L, order, l) + b /\ j + 1 = g[l] + b
  BY <1>6 DEF Goes
<1>9. PICK b \in 0..Reach(L, order, l) : m = From(L, order, l) + b /\ j + 1 = g[l] + b
  BY <1>8
<1>10. /\ From(L, order, k) \in 1..Len(L) /\ From(L, order, l) \in 1..Len(L)
       /\ g[k] \in Nat /\ g[l] \in Nat /\ Reach(L, order, k) \in Nat /\ Reach(L, order, l) \in Nat
  <2>1. UnitCopy(L, N, order, g, k) /\ UnitCopy(L, N, order, g, l)
    BY LaidUnit DEF Relaid
  <2> QED
    BY <2>1 DEF UnitCopy
<1>11. (k = l /\ b = a + 1) \/ (k < l /\ b = 0)
  <2>1. g[k] + a + 1 = g[l] + b
    BY <1>2, <1>9
  <2> QED
    BY <2>1, UnitsMeet
<1>12. m = i + 1
  <2>1. CASE k = l /\ b = a + 1
    BY <1>2, <1>3, <1>9, <1>10, <2>1
  <2>2. CASE k < l /\ b = 0
    <3>1. Units(L) \in Nat /\ l - 1 \in 1..Units(L) /\ l # 1
      <4>1. Units(L) \in Nat
        BY LaidApart DEF Relaid
      <4> QED
        BY <2>2, <4>1
    <3>2. j + 1 = g[l] /\ g[l] - 1 = j /\ m = From(L, order, l)
      BY <1>3, <1>9, <1>10, <2>2
    <3>3. ~IsBlank(N[g[l] - 1])
      <4>1. Plain(L)
        BY DEF Relaid
      <4> QED
        BY <1>3, <3>2, <4>1, PlainLine
    <3>4. /\ g[l] = g[l - 1] + Reach(L, order, l - 1) + 1
          /\ From(L, order, l) = From(L, order, l - 1) + Reach(L, order, l - 1) + 1
      BY <3>1, <3>3, LaidApart DEF Relaid
    <3> DEFINE r == Reach(L, order, l - 1)
               f == From(L, order, l - 1)
               h == g[l - 1]
    <3>5. r \in Nat /\ f \in 1..Len(L) /\ h \in Nat
      <4>1. UnitCopy(L, N, order, g, l - 1)
        BY <3>1, LaidUnit DEF Relaid
      <4> QED
        BY <4>1 DEF UnitCopy
    <3>6. j = h + r /\ r \in 0..r /\ m = f + r + 1
      <4>1. g[l] = h + r + 1 /\ From(L, order, l) = f + r + 1
        BY <3>4
      <4> HIDE DEF h, r, f
      <4> QED
        BY <1>3, <3>2, <3>5, <4>1
    <3>7. Goes(L, order, g, f + r, j)
      BY <3>1, <3>6 DEF Goes
    <3>8. f + r = i
      BY <3>7, GoesApart
    <3> HIDE DEF f, r, h
    <3> QED
      BY <3>6, <3>8
  <2> QED
    BY <1>11, <2>1, <2>2
<1> QED
  BY <1>3, <1>7, <1>12 DEF Glued

\* Units laid out in a new order change no card.
LEMMA RelaidContent ==
    ASSUME NEW L, NEW order, NEW N, NEW g, Relaid(L, order, N, g), NEW edited
    PROVE  Content(N, edited) = Content(L, edited)
<1> DEFINE p == [i \in 1..Len(L) |-> CHOOSE j : Goes(L, order, g, i, j)]
<1>1. IsSeq(L) /\ IsSeq(N) /\ Plain(L) /\ Len(L) \in Nat
  <2>1. IsSeq(N)
    BY LaidApart DEF Relaid
  <2> QED
    BY <2>1, SeqDomain DEF Relaid
<1>2. ASSUME NEW i, Matters(L, i) PROVE i \in 1..Len(L) /\ Goes(L, order, g, i, p[i])
  <2>1. i \in 1..Len(L)
    BY <1>2 DEF Matters
  <2>2. PICK j : Goes(L, order, g, i, j)
    BY <1>2, GoesSome
  <2>3. p[i] = CHOOSE m : Goes(L, order, g, i, m)
    BY <2>1
  <2> HIDE DEF p
  <2> QED
    BY <2>1, <2>2, <2>3
<1> HIDE DEF p
<1>3. ASSUME NEW i, Matters(L, i) PROVE p[i] \in 1..Len(N) /\ N[p[i]] = L[i]
  BY <1>2, <1>3, GoesLine
<1>4. ASSUME NEW i, NEW k, Matters(L, i), Matters(L, k), p[i] = p[k] PROVE i = k
  BY <1>2, <1>4, GoesApart
<1>5. ASSUME NEW j, Matters(N, j) PROVE \E i : Matters(L, i) /\ p[i] = j
  <2>1. PICK i : Goes(L, order, g, i, j) /\ Matters(L, i)
    BY <1>5, ComesFrom
  <2>2. p[i] = j
    BY <1>2, <2>1, GoesOne
  <2> QED
    BY <2>1, <2>2
<1>6. ASSUME NEW i, Glued(L, i) PROVE p[i + 1] = p[i] + 1
  <2>1. Matters(L, i) /\ Matters(L, i + 1)
    <3>1. i \in 1..Len(L) /\ i < Len(L) /\ InBlock(L[i + 1]) /\ Matters(L, i)
      BY <1>6 DEF Glued, Matters
    <3>2. i + 1 \in 1..Len(L)
      BY <1>1, <3>1
    <3> QED
      BY <3>1, <3>2 DEF Matters
  <2>2. Goes(L, order, g, i, p[i]) /\ Goes(L, order, g, i + 1, p[i + 1])
    BY <1>2, <2>1
  <2>3. Goes(L, order, g, i + 1, p[i] + 1)
    BY <1>6, <2>2, LaidTogether
  <2> QED
    BY <2>2, <2>3, GoesOne
<1>7. ASSUME NEW i, Matters(L, i), Glued(N, p[i]) PROVE Glued(L, i)
  BY <1>2, <1>7, CameTogether
<1>8. Copies(L, N, p)
  BY <1>3, <1>4, <1>5, <1>6, <1>7 DEF Copies
<1> QED
  BY <1>1, <1>8, CopiesContent

\* A move changes no card.
LEMMA ReorderContent ==
    ASSUME NEW L, IsSeq(L), Paired(L), UniqueIds(L), Plain(L), NEW moved, NEW target, NEW place, place # "start",
           NEW N, ReorderUnit(L, moved, target, place) = Rewritten(N), N # L, NEW edited
    PROVE  Content(N, edited) = Content(L, edited)
<1> DEFINE U == ComputeUnits(L)
           m == FindUnit(U, moved)
           t == TargetIndex(U, target, place)
           order == MovedOrder(Len(U), m, t)
<1>1. Permutes(L, order) /\ \E g : Laid(L, N, order, g)
  BY ReorderLaid
<1> HIDE DEF order
<1>2. PICK g : Laid(L, N, order, g)
  BY <1>1
<1>3. Relaid(L, order, N, g)
  BY <1>1, <1>2 DEF Relaid
<1> QED
  BY <1>3, RelaidContent

----------------------------------------
(* An edit of a card's text *)

\* A block copied line by line to another place, with its end, is the same
\* block.
LEMMA ShiftedBlock ==
    ASSUME NEW A, NEW B, IsSeq(A), IsSeq(B), NEW i \in 1..Len(A), InBlock(A[i]), NEW c \in Int,
           \A k \in i..BlockEnd(A, i) : k + c \in 1..Len(B) /\ B[k + c] = A[k],
           BlockEnd(A, i) + c < Len(B) => ~InBlock(B[BlockEnd(A, i) + c + 1])
    PROVE  BlockText(B, i + c) = BlockText(A, i)
<1> DEFINE e == BlockEnd(A, i)
           j == i + c
           d == BlockEnd(B, j)
           n == e - i + 1
<1>1. Len(A) \in Nat /\ Len(B) \in Nat
  BY SeqDomain
<1>2. e \in i..Len(A) /\ \A k \in i..e : InBlock(A[k])
  BY BlockEndFacts
<1>3. \A k \in i..e : k + c \in 1..Len(B) /\ B[k + c] = A[k]
  OBVIOUS
<1>4. e + c < Len(B) => ~InBlock(B[e + c + 1])
  OBVIOUS
<1> HIDE DEF e
<1>5. j \in 1..Len(B) /\ InBlock(B[j]) /\ j \in Int
  BY <1>1, <1>2, <1>3
<1>6. /\ d \in j..Len(B) /\ \A k \in j..d : InBlock(B[k])
      /\ \A m \in j..Len(B) : (\A k \in j..m : InBlock(B[k])) => m <= d
  <2> HIDE DEF j
  <2> QED
    BY <1>5, BlockEndFacts
<1> HIDE DEF d
<1>7. d = e + c
  <2>1. e + c \in j..Len(B)
    BY <1>1, <1>2, <1>3
  <2>2. ASSUME NEW k \in j..(e + c) PROVE InBlock(B[k])
    <3>1. k - c \in i..e /\ (k - c) + c = k
      BY <1>2
    <3> QED
      BY <1>2, <1>3, <3>1
  <2>3. e + c <= d
    BY <1>6, <2>1, <2>2
  <2>4. ~(e + c < d)
    <3> SUFFICES ASSUME e + c < d PROVE FALSE
      OBVIOUS
    <3>1. e + c + 1 \in j..d /\ e + c < Len(B)
      BY <1>1, <1>2, <1>6, <2>1
    <3> QED
      BY <1>4, <1>6, <3>1
  <2> QED
    BY <1>2, <1>6, <2>3, <2>4
<1>8. /\ i \in Int /\ e \in Int /\ 1 <= i /\ e <= Len(A) /\ i <= e /\ n \in Nat
      /\ j \in Int /\ d \in Int /\ 1 <= j /\ d <= Len(B) /\ j <= d /\ d - j + 1 = n
  BY <1>1, <1>2, <1>5, <1>6, <1>7
<1>9. /\ IsSeq(SubSeq(A, i, e)) /\ Len(SubSeq(A, i, e)) = n
      /\ \A k \in 1..n : SubSeq(A, i, e)[k] = A[i + k - 1]
  BY <1>8, Cutting
<1>10. /\ IsSeq(SubSeq(B, j, d)) /\ Len(SubSeq(B, j, d)) = n
       /\ \A k \in 1..n : SubSeq(B, j, d)[k] = B[j + k - 1]
  <2> HIDE DEF j, n
  <2>1. Len(SubSeq(B, j, d)) = d - j + 1
    BY <1>8, Cutting
  <2> QED
    BY <1>8, <2>1, Cutting
<1>11. \A k \in 1..n : B[j + k - 1] = A[i + k - 1]
  <2> SUFFICES ASSUME NEW k \in 1..n PROVE B[j + k - 1] = A[i + k - 1]
    OBVIOUS
  <2>1. i + k - 1 \in i..e /\ (i + k - 1) + c = j + k - 1
    BY <1>8
  <2> QED
    BY <1>3, <2>1
<1>12. SubSeq(B, j, d) = SubSeq(A, i, e)
  <2> DEFINE s == SubSeq(A, i, e)
             t == SubSeq(B, j, d)
  <2>1. IsSeq(s) /\ IsSeq(t) /\ Len(s) = n /\ Len(t) = n
    BY <1>9, <1>10
  <2>2. \A k \in 1..n : t[k] = s[k]
    BY <1>9, <1>10, <1>11
  <2> HIDE DEF j, n, s, t
  <2>3. t = s
    BY <2>1, <2>2, SameSeq
  <2> QED
    BY <2>3 DEF s, t
<1> QED
  BY <1>12 DEF BlockText, e, d

\* The block below the directive at at, down to e, has another text of n lines.
Reworded(L, at, e, n, N) ==
    /\ IsSeq(L) /\ IsSeq(N) /\ Plain(L) /\ Len(L) \in Nat /\ n \in Nat \ {0}
    /\ at \in 1..Len(L) /\ e \in (at + 1)..Len(L) /\ L[at].kind = "atom"
    /\ Len(N) = Len(L) - e + at + n
    /\ \A i \in 1..at : N[i] = L[i]
    /\ \A i \in (e + 1)..Len(L) : N[i - e + at + n] = L[i]
    /\ \A k \in (at + 1)..e : ~IsBoundary(L[k])
    /\ \A k \in (at + 1)..(at + n) : ~IsBoundary(N[k])
    /\ e < Len(L) => ~InBlock(L[e + 1])

\* With another text in a card's block, directives stay above their blocks.
LEMMA RewordedPlain ==
    ASSUME NEW L, NEW at, NEW e, NEW n, NEW N, Reworded(L, at, e, n, N)
    PROVE  Plain(N)
<1>1. /\ Plain(L) /\ Len(L) \in Nat /\ n \in Nat \ {0}
      /\ at \in 1..Len(L) /\ e \in (at + 1)..Len(L) /\ L[at].kind = "atom"
      /\ Len(N) = Len(L) - e + at + n
      /\ \A i \in 1..at : N[i] = L[i]
      /\ \A i \in (e + 1)..Len(L) : N[i - e + at + n] = L[i]
      /\ \A k \in (at + 1)..(at + n) : ~IsBoundary(N[k])
  BY DEF Reworded
<1> SUFFICES ASSUME NEW j \in 1..Len(N), N[j].kind = "atom"
             PROVE  HasAttr(N[j], "id") /\ j < Len(N) /\ InBlock(N[j + 1])
  BY DEF Plain
<1>2. CASE j < at
  <2>1. j \in 1..at /\ j + 1 \in 1..at /\ j \in 1..Len(L) /\ j < Len(N)
    BY <1>1, <1>2
  <2>2. N[j] = L[j] /\ N[j + 1] = L[j + 1]
    BY <1>1, <2>1
  <2>3. HasAttr(L[j], "id") /\ InBlock(L[j + 1])
    BY <1>1, <2>1, <2>2 DEF Plain
  <2> QED
    BY <2>1, <2>2, <2>3
<1>3. CASE j = at
  <2>1. at + 1 \in (at + 1)..(at + n) /\ at < Len(N) /\ at \in 1..at
    BY <1>1
  <2>2. InBlock(N[at + 1])
    BY <1>1, <2>1 DEF IsBoundary, InBlock, IsStructural
  <2>3. N[at] = L[at] /\ HasAttr(L[at], "id")
    BY <1>1, <2>1 DEF Plain
  <2> QED
    BY <1>3, <2>1, <2>2, <2>3
<1>4. CASE at < j /\ j <= at + n
  <2>1. j \in (at + 1)..(at + n)
    BY <1>1, <1>4
  <2> QED
    BY <1>1, <2>1 DEF IsBoundary, LooksLikeDirectiveLine
<1>5. CASE at + n < j
  <2> DEFINE i == j - at - n + e
  <2>1. i \in (e + 1)..Len(L) /\ i - e + at + n = j /\ i \in 1..Len(L)
    <3>1. /\ j \in Nat /\ at \in Nat /\ n \in Nat /\ e \in Nat /\ Len(L) \in Nat
          /\ at < e /\ j <= Len(N) /\ Len(N) = Len(L) - e + at + n
      BY <1>1
    <3>2. i \in Int /\ e < i /\ i <= Len(L) /\ i - e + at + n = j
      BY <3>1, <1>5
    <3> QED
      BY <3>1, <3>2
  <2> HIDE DEF i
  <2>2. N[j] = L[i]
    <3>1. N[i - e + at + n] = L[i]
      BY <1>1, <2>1
    <3> QED
      BY <2>1, <3>1
  <2>3. HasAttr(L[i], "id") /\ i < Len(L) /\ InBlock(L[i + 1])
    BY <1>1, <2>1, <2>2 DEF Plain
  <2>4. j < Len(N) /\ i + 1 \in (e + 1)..Len(L) /\ (i + 1) - e + at + n = j + 1
    BY <1>1, <1>5, <2>1, <2>3
  <2>5. N[(i + 1) - e + at + n] = L[i + 1]
    BY <1>1, <2>4
  <2>6. N[j + 1] = L[i + 1]
    BY <2>4, <2>5
  <2> QED
    BY <2>2, <2>3, <2>4, <2>6
<1> QED
  BY <1>1, <1>2, <1>3, <1>4, <1>5

\* It can be worded back.
LEMMA RewordedBack ==
    ASSUME NEW L, NEW at, NEW e, NEW n, NEW N, Reworded(L, at, e, n, N)
    PROVE  Reworded(N, at, at + n, e - at, L)
<1>1. /\ IsSeq(L) /\ IsSeq(N) /\ Plain(L) /\ Len(L) \in Nat /\ n \in Nat \ {0}
      /\ at \in 1..Len(L) /\ e \in (at + 1)..Len(L) /\ L[at].kind = "atom"
      /\ Len(N) = Len(L) - e + at + n
      /\ \A i \in 1..at : N[i] = L[i]
      /\ \A i \in (e + 1)..Len(L) : N[i - e + at + n] = L[i]
      /\ \A k \in (at + 1)..e : ~IsBoundary(L[k])
      /\ \A k \in (at + 1)..(at + n) : ~IsBoundary(N[k])
      /\ e < Len(L) => ~InBlock(L[e + 1])
  BY DEF Reworded
<1>2. Plain(N)
  BY RewordedPlain
<1>3. /\ Len(N) \in Nat /\ e - at \in Nat \ {0} /\ at \in 1..Len(N) /\ at + n \in (at + 1)..Len(N)
      /\ Len(L) = Len(N) - (at + n) + at + (e - at)
      /\ at + (e - at) = e
  <2>1. at \in Nat \ {0} /\ e \in Nat /\ at < e /\ e <= Len(L) /\ Len(L) \in Nat /\ n \in Nat \ {0}
    BY <1>1
  <2>2. Len(N) = Len(L) - e + at + n
    BY <1>1
  <2> QED
    BY <2>1, <2>2
<1>4. N[at].kind = "atom" /\ \A i \in 1..at : L[i] = N[i]
  <2>1. at \in 1..at
    BY <1>1
  <2> QED
    BY <1>1, <2>1
<1>5. ASSUME NEW j \in ((at + n) + 1)..Len(N)
      PROVE  L[j - (at + n) + at + (e - at)] = N[j]
  <2> DEFINE i == j - (at + n) + at + (e - at)
  <2>1. i \in (e + 1)..Len(L) /\ i - e + at + n = j
    BY <1>1
  <2> HIDE DEF i
  <2>2. N[j] = L[i]
    BY <1>1, <2>1
  <2> QED
    BY <2>2 DEF i
<1>6. ASSUME at + n < Len(N) PROVE ~InBlock(N[(at + n) + 1])
  <2>1. e < Len(L) /\ e + 1 \in (e + 1)..Len(L) /\ (e + 1) - e + at + n = (at + n) + 1
    BY <1>1, <1>6
  <2>2. N[(at + n) + 1] = L[e + 1]
    BY <1>1, <2>1
  <2> QED
    BY <1>1, <2>1, <2>2
<1> QED
  BY <1>1, <1>2, <1>3, <1>4, <1>5, <1>6 DEF Reworded

\* Where the first line of a block is in the new text.
Moved(at, e, n, i) == IF i <= at + 1 THEN i ELSE i - e + at + n

\* Each block goes to one with the same card, but for the text of the edited
\* one.
LEMMA RewordedCard ==
    ASSUME NEW L, NEW at, NEW e, NEW n, NEW N, Reworded(L, at, e, n, N), NEW i \in BlockStarts(L)
    PROVE  LET j == Moved(at, e, n, i) IN
           /\ i \in Nat /\ (i <= at + 1 \/ e + 2 <= i)
           /\ j \in BlockStarts(N)
           /\ Headed(N, j) <=> Headed(L, i)
           /\ Headed(L, i) => Saying(N, j, L[at].attrs["id"]) = Saying(L, i, L[at].attrs["id"])
           /\ ~Headed(L, i) => BlockText(N, j) = BlockText(L, i)
<1> DEFINE edited == L[at].attrs["id"]
<1>1. /\ IsSeq(L) /\ IsSeq(N) /\ Plain(L) /\ Len(L) \in Nat /\ n \in Nat \ {0}
      /\ at \in 1..Len(L) /\ e \in (at + 1)..Len(L) /\ L[at].kind = "atom"
      /\ Len(N) = Len(L) - e + at + n
      /\ \A k \in 1..at : N[k] = L[k]
      /\ \A k \in (e + 1)..Len(L) : N[k - e + at + n] = L[k]
      /\ \A k \in (at + 1)..e : ~IsBoundary(L[k])
      /\ \A k \in (at + 1)..(at + n) : ~IsBoundary(N[k])
      /\ e < Len(L) => ~InBlock(L[e + 1])
  BY DEF Reworded
<1>2. i \in 1..Len(L) /\ InBlock(L[i]) /\ (i = 1 \/ ~InBlock(L[i - 1]))
  BY BlockStartsFacts, <1>1 DEF BlockStarts
<1>3. Len(N) \in Nat /\ DOMAIN N = 1..Len(N) /\ at \in 1..at
  BY <1>1, SeqDomain
<1>4. ~InBlock(L[at]) /\ ~InBlock(N[at])
  BY <1>1, <1>3 DEF Plain, InBlock, IsStructural, LooksLikeDirectiveLine
<1>5. /\ BlockEnd(L, i) \in i..Len(L)
      /\ \A k \in i..BlockEnd(L, i) : InBlock(L[k])
      /\ BlockEnd(L, i) < Len(L) => ~InBlock(L[BlockEnd(L, i) + 1])
  BY <1>1, <1>2, BlockEndFacts
<1> DEFINE d == BlockEnd(L, i)
           j == Moved(at, e, n, i)
<1>6. CASE i <= at
  <2>1. i < at /\ j = i
    BY <1>1, <1>2, <1>4, <1>6 DEF Moved
  <2>2. d < at
    <3> SUFFICES ASSUME at <= d PROVE FALSE
      BY <1>1, <1>5
    <3>1. at \in i..d
      BY <1>1, <1>2, <1>5, <2>1
    <3> QED
      BY <1>4, <1>5, <3>1
  <2> HIDE DEF d
  <2>3. N[i] = L[i] /\ i \in 1..Len(N) /\ (i > 1 => N[i - 1] = L[i - 1])
    <3>1. i \in 1..at /\ i \in 1..Len(N) /\ (i > 1 => i - 1 \in 1..at)
      BY <1>1, <1>2, <2>1
    <3> QED
      BY <1>1, <3>1
  <2>4. \A k \in i..d : k + 0 \in 1..Len(N) /\ N[k + 0] = L[k]
    BY <1>1, <1>2, <1>5, <2>2 DEF d
  <2>5. ~InBlock(N[d + 0 + 1])
    <3>1. d < Len(L) /\ d + 1 \in 1..at /\ d + 0 + 1 = d + 1
      BY <1>1, <1>2, <1>5, <2>2 DEF d
    <3> QED
      BY <1>1, <1>5, <3>1 DEF d
  <2>6. BlockText(N, i + 0) = BlockText(L, i)
    <3>1. \A k \in i..BlockEnd(L, i) : k + 0 \in 1..Len(N) /\ N[k + 0] = L[k]
      BY <2>4 DEF d
    <3>2. BlockEnd(L, i) + 0 < Len(N) => ~InBlock(N[BlockEnd(L, i) + 0 + 1])
      BY <2>5 DEF d
    <3>3. 0 \in Int
      OBVIOUS
    <3> QED
      BY <1>1, <1>2, <3>1, <3>2, <3>3, ShiftedBlock
  <2>7. BlockText(N, i) = BlockText(L, i)
    <3>1. i + 0 = i
      BY <1>2
    <3> QED
      BY <2>6, <3>1
  <2>8. i \in BlockStarts(N)
    BY <1>2, <1>3, <2>3 DEF BlockStarts
  <2>9. Headed(N, i) <=> Headed(L, i)
    BY <2>3 DEF Headed
  <2>10. Headed(L, i) => Saying(N, i, edited) = Saying(L, i, edited)
    BY <2>3, <2>7 DEF Headed, Saying
  <2> QED
    BY <1>1, <1>2, <1>6, <2>1, <2>7, <2>8, <2>9, <2>10
<1>7. CASE i = at + 1
  <2>1. j = i /\ i \in 1..Len(N) /\ i - 1 = at /\ i > 1 /\ at + 1 \in (at + 1)..(at + n)
    BY <1>1, <1>3, <1>7 DEF Moved
  <2>2. InBlock(N[i])
    BY <1>1, <1>7, <2>1 DEF IsBoundary, InBlock, IsStructural
  <2>3. N[i - 1] = L[i - 1] /\ L[i - 1] = L[at]
    BY <1>1, <1>3, <2>1
  <2>4. i \in BlockStarts(N)
    BY <1>3, <1>4, <2>1, <2>2 DEF BlockStarts
  <2>5. Headed(N, i) /\ Headed(L, i)
    BY <1>1, <2>1, <2>3 DEF Headed
  <2>6. Saying(N, i, edited) = Saying(L, i, edited)
    BY <2>3 DEF Saying
  <2> QED
    BY <1>1, <1>2, <1>7, <2>1, <2>4, <2>5, <2>6
<1>8. CASE at + 1 < i /\ i <= e
  <2>1. i - 1 \in (at + 1)..e /\ i # 1
    BY <1>1, <1>2, <1>8
  <2>2. InBlock(L[i - 1])
    BY <1>1, <2>1 DEF IsBoundary, InBlock, IsStructural
  <2> QED
    BY <1>2, <2>1, <2>2
<1>9. CASE i = e + 1
  <2>1. e < Len(L)
    BY <1>1, <1>2, <1>9
  <2> QED
    BY <1>1, <1>2, <1>9, <2>1
<1>10. CASE e + 1 < i
  <2> DEFINE c == at + n - e
  <2>1. j = i - e + at + n /\ c \in Int /\ i - e + at + n = i + c
    BY <1>1, <1>2, <1>10 DEF Moved
  <2>2. ASSUME NEW k \in (e + 1)..Len(L) PROVE k + c \in 1..Len(N) /\ N[k + c] = L[k] /\ k + c > 1
    <3>1. k - e + at + n = k + c
      BY <1>1
    <3>2. N[k - e + at + n] = L[k]
      BY <1>1
    <3>3. k \in Int /\ e < k /\ k <= Len(L) /\ at \in Nat /\ at > 0 /\ n \in Nat /\ n > 0 /\ e \in Int
          /\ Len(L) \in Nat /\ Len(N) = Len(L) - e + at + n
      BY <1>1
    <3>4. k + c \in 1..Len(N) /\ k + c > 1
      BY <3>3
    <3> QED
      BY <3>1, <3>2, <3>4
  <2>3. i \in (e + 1)..Len(L) /\ i - 1 \in (e + 1)..Len(L) /\ i > 1 /\ (i - 1) + c = (i + c) - 1
    BY <1>1, <1>2, <1>10
  <2> DEFINE m == i + c
  <2>4. m \in 1..Len(N) /\ N[m] = L[i] /\ N[m - 1] = L[i - 1] /\ m > 1
    BY <2>2, <2>3
  <2>5. \A k \in i..BlockEnd(L, i) : k + c \in 1..Len(N) /\ N[k + c] = L[k]
    <3> SUFFICES ASSUME NEW k \in i..BlockEnd(L, i) PROVE k + c \in 1..Len(N) /\ N[k + c] = L[k]
      OBVIOUS
    <3>1. k \in (e + 1)..Len(L)
      BY <1>1, <1>5, <2>3
    <3> QED
      BY <2>2, <3>1
  <2>6. BlockEnd(L, i) + c < Len(N) => ~InBlock(N[BlockEnd(L, i) + c + 1])
    <3> SUFFICES ASSUME d + c < Len(N) PROVE ~InBlock(N[d + c + 1])
      OBVIOUS
    <3>1. d \in i..Len(L)
      BY <1>5
    <3> HIDE DEF d
    <3>2. d < Len(L) /\ d + 1 \in (e + 1)..Len(L) /\ (d + 1) + c = d + c + 1
      BY <1>1, <1>2, <1>10, <3>1
    <3>3. N[d + c + 1] = L[d + 1]
      BY <2>2, <3>2
    <3> QED
      BY <1>5, <3>2, <3>3 DEF d
  <2> HIDE DEF c
  <2>7. BlockText(N, i + c) = BlockText(L, i)
    BY <1>1, <1>2, <2>1, <2>5, <2>6, ShiftedBlock
  <2>8. j = m
    BY <2>1
  <2>9. m \in BlockStarts(N)
    BY <1>2, <1>3, <2>3, <2>4 DEF BlockStarts
  <2>10. Headed(N, m) <=> Headed(L, i)
    BY <2>3, <2>4 DEF Headed
  <2>11. Headed(L, i) => Saying(N, m, edited) = Saying(L, i, edited)
    BY <2>4, <2>7 DEF Headed, Saying
  <2> QED
    BY <1>1, <1>2, <1>10, <2>7, <2>8, <2>9, <2>10, <2>11
<1> QED
  BY <1>1, <1>2, <1>6, <1>7, <1>8, <1>9, <1>10

\* So the cards say what they said, but for that text.
LEMMA RewordedContent ==
    ASSUME NEW L, NEW at, NEW e, NEW n, NEW N, Reworded(L, at, e, n, N)
    PROVE  Content(N, L[at].attrs["id"]) = Content(L, L[at].attrs["id"])
<1> DEFINE edited == L[at].attrs["id"]
           q == [i \in BlockStarts(L) |-> Moved(at, e, n, i)]
<1>1. /\ IsSeq(L) /\ IsSeq(N) /\ Plain(L) /\ Plain(N)
      /\ at \in Nat /\ e \in Nat /\ n \in Nat /\ at < e /\ n > 0
  <2>1. /\ IsSeq(L) /\ IsSeq(N) /\ Plain(L) /\ Len(L) \in Nat /\ n \in Nat \ {0}
        /\ at \in 1..Len(L) /\ e \in (at + 1)..Len(L)
    BY DEF Reworded
  <2>2. Plain(N)
    BY RewordedPlain
  <2> QED
    BY <2>1, <2>2
<1>2. Reworded(N, at, at + n, e - at, L)
  BY RewordedBack
<1>3. ASSUME NEW i \in BlockStarts(L)
      PROVE  /\ q[i] = Moved(at, e, n, i) /\ i \in Nat /\ (i <= at + 1 \/ e + 2 <= i)
             /\ q[i] \in BlockStarts(N)
             /\ Headed(N, q[i]) <=> Headed(L, i)
             /\ Headed(L, i) => Saying(N, q[i], edited) = Saying(L, i, edited)
             /\ ~Headed(L, i) => BlockText(N, q[i]) = BlockText(L, i)
  BY RewordedCard
<1> HIDE DEF q, edited
<1>4. ASSUME NEW i \in BlockStarts(L), NEW k \in BlockStarts(L), q[i] = q[k] PROVE i = k
  BY <1>1, <1>3, <1>4 DEF Moved
<1>5. ASSUME NEW j \in BlockStarts(N) PROVE \E i \in BlockStarts(L) : q[i] = j
  <2> DEFINE i == Moved(at, at + n, e - at, j)
  <2>1. i \in BlockStarts(L) /\ j \in Nat /\ (j <= at + 1 \/ (at + n) + 2 <= j)
    BY <1>2, RewordedCard
  <2>2. Moved(at, e, n, i) = j
    BY <1>1, <2>1 DEF Moved
  <2> HIDE DEF i
  <2>3. q[i] = j
    BY <1>3, <2>1, <2>2
  <2> QED
    BY <2>1, <2>3
<1>6. SameCards(L, N, q, edited)
  BY <1>3, <1>4, <1>5 DEF SameCards
<1>7. Content(N, edited) = Content(L, edited)
  BY <1>1, <1>6, SameContent
<1> QED
  BY <1>7 DEF edited

\* A card's text edited to one block: the other cards say what they said.
LEMMA BlockContent ==
    ASSUME NEW L, IsSeq(L), Plain(L), NEW id, NEW page, IsSeq(page),
           \A l \in Range(Trimmed(page)) : ~IsBlank(l),
           NEW N, ReplaceAtomBlock(L, id, page) = Rewritten(N)
    PROVE  Content(N, id) = Content(L, id)
<1> DEFINE b == Trimmed(page)
           n == Len(b)
<1>1. PICK at \in 1..Len(L) :
        /\ IsAtom(L[at], id) /\ N = Rebuilt(L, at, b) /\ b # <<>>
        /\ \A k \in 1..Len(b) : ~LooksLikeDirectiveLine(b[k])
  BY BlockIs
<1> DEFINE e == UnitEnd(L, at)
<1>2. IsSeq(b) /\ n \in Nat \ {0} /\ DOMAIN b = 1..n
  BY <1>1, TrimmedFacts
<1>3. \A k \in 1..n : ~IsBoundary(b[k])
  <2>1. \A k \in 1..n : b[k] \in Range(b)
    BY <1>2 DEF Range
  <2> QED
    BY <1>1, <2>1 DEF IsBoundary
<1>4. /\ L[at].kind = "atom" /\ L[at].attrs["id"] = id /\ Len(L) \in Nat
      /\ at < Len(L) /\ InBlock(L[at + 1])
  BY <1>1, SeqDomain DEF IsAtom, Plain
<1>5. /\ e \in at..Len(L)
      /\ \A k \in (at + 1)..e : ~IsBoundary(L[k])
      /\ e < Len(L) => IsBoundary(L[e + 1])
      /\ \A j \in at..Len(L) : (\A k \in (at + 1)..j : ~IsBoundary(L[k])) => j <= e
  BY <1>4, PlainEnd
<1>6. Spliced(L, at, e, b, N)
  BY <1>1, <1>2, RebuiltFacts
<1> HIDE DEF b, n, e
<1>7. e \in (at + 1)..Len(L)
  <2>1. at + 1 \in 1..Len(L) /\ at + 1 \in at..Len(L)
    BY <1>4
  <2>2. ~IsBoundary(L[at + 1])
    BY <1>4, <2>1, PlainLine
  <2>3. \A k \in (at + 1)..(at + 1) : k = at + 1
    BY <1>4
  <2>4. at + 1 <= e
    BY <1>5, <2>1, <2>2, <2>3
  <2> QED
    BY <1>4, <1>5, <2>4
<1>8. e < Len(L) => ~InBlock(L[e + 1])
  <2>1. e < Len(L) => e + 1 \in 1..Len(L)
    BY <1>4, <1>7
  <2> QED
    BY <1>5, <2>1, PlainLine
<1>9. /\ IsSeq(N) /\ Len(N) = Len(L) - e + at + n
      /\ \A i \in 1..at : N[i] = L[i]
  <2>1. IsSeq(N) /\ Len(N) = Len(L) - (e - at) + n /\ \A i \in 1..at : N[i] = L[i]
    BY <1>6 DEF Spliced, n
  <2> QED
    BY <1>2, <1>4, <1>7, <2>1
<1>10. ASSUME NEW i \in (e + 1)..Len(L) PROVE N[i - e + at + n] = L[i]
  <2> DEFINE k == i - e
  <2>1. k \in 1..(Len(L) - e) /\ e + k = i /\ at + n + k = i - e + at + n
    BY <1>2, <1>4, <1>7
  <2> HIDE DEF k
  <2>2. N[at + n + k] = L[e + k]
    BY <1>6, <2>1 DEF Spliced, n
  <2> QED
    BY <2>1, <2>2
<1>11. ASSUME NEW k \in (at + 1)..(at + n) PROVE ~IsBoundary(N[k])
  <2> DEFINE m == k - at
  <2>1. m \in 1..n /\ at + m = k
    BY <1>2, <1>4
  <2> HIDE DEF m
  <2>2. N[at + m] = b[m]
    BY <1>6, <2>1 DEF Spliced, n
  <2> QED
    BY <1>3, <2>1, <2>2
<1>12. Reworded(L, at, e, n, N)
  BY <1>2, <1>4, <1>5, <1>7, <1>8, <1>9, <1>10, <1>11 DEF Reworded
<1> QED
  BY <1>4, <1>12, RewordedContent

\* The card whose text a request changes.
Edited(r) == IF r.op = "block" THEN r.id ELSE "none"

\* Whatever a request makes of a page, its cards say what they said.
LEMMA MadeContent ==
    ASSUME NEW r, NEW L, NEW N, IsSeq(L), IsSeq(N), WellPlaced(L), Paired(L), UniqueIds(L), N # L,
           Made(r, L, N), OneBlock(r)
    PROVE  Content(N, Edited(r)) = Content(L, Edited(r))
<1>0. Plain(L)
  BY PlainPlaced
<1>1. CASE /\ r.op = "reorder" /\ r.place # "start"
           /\ Makes(ReorderUnit(L, r.moved, r.target, r.place), N)
  BY <1>0, <1>1, ReorderContent DEF Makes
<1>2. CASE r.op = "group" /\ \E given : Makes(InsertGroupMarkers(L, r.keys, r.id, given), N)
  BY <1>0, <1>2, GroupContent DEF Makes
<1>3. CASE /\ r.op = "ungroup" /\ IsGroupKey(r.key) /\ ~GroupFault(L, r.key)
           /\ Makes(RemoveGroupMarkers(L, r.key), N)
  BY <1>3, UngroupContent DEF Makes
<1>4. CASE r.op = "name" /\ \E id, given : \/ Makes(SetAtomSlug(L, id, given), N)
                                           \/ Makes(SetGroupSlug(L, id, given), N)
  BY <1>0, <1>4, NameContent DEF Makes
<1>5. CASE r.op = "attrs" /\ \E sent : /\ Makes(SaveAttrs(L, r.id, sent), N)
                                       /\ \A i \in 1..Len(L) : IsAtom(L[i], r.id) =>
                                            Kept(Saved(r.id, sent)) = Kept(L[i].attrs)
  <2> DEFINE id == r.id
             edited == Edited(r)
  <2>1. PICK sent : /\ SaveAttrs(L, id, sent) = Rewritten(N)
                    /\ \A i \in 1..Len(L) : IsAtom(L[i], id) => Kept(Saved(id, sent)) = Kept(L[i].attrs)
    BY <1>5 DEF Makes
  <2> HIDE DEF id, edited
  <2>3. SaveAttrs(L, id, sent) = Rewritten(N)
    BY <2>1
  <2>4. SavesSame(L, id, sent)
    BY <2>1 DEF SavesSame
  <2>2. Content(N, edited) = Content(L, edited)
    BY <1>0, <2>3, <2>4, AttrsContent
  <2> QED
    BY <2>2 DEF edited
<1>6. CASE r.op = "block" /\ IsSeq(r.text) /\ Makes(ReplaceAtomBlock(L, r.id, r.text), N)
  <2> DEFINE page == r.text
  <2>1. \A l \in Range(Trimmed(page)) : ~IsBlank(l)
    BY <1>6 DEF OneBlock
  <2>2. IsSeq(page) /\ ReplaceAtomBlock(L, r.id, page) = Rewritten(N)
    BY <1>6 DEF Makes
  <2> HIDE DEF page
  <2>3. Content(N, r.id) = Content(L, r.id)
    BY <1>0, <2>1, <2>2, BlockContent
  <2> QED
    BY <1>6, <2>3 DEF Edited
<1>7. CASE r.op = "review" /\ Makes(SetAtomDigests(L, ReviewEntries(L, r.ids)), N)
  BY <1>0, <1>7, ReviewContent DEF Makes
<1> QED
  BY <1>1, <1>2, <1>3, <1>4, <1>5, <1>6, <1>7 DEF Made

\* Each step of the views keeps what the cards say.
LEMMA ContentStep == ViewInv /\ [ViewNext]_viewVars =>
    \A v \in Views : (Landed(v) /\ OneBlock(Asked(v))) =>
         LET edited == IF Asked(v).op = "block" THEN Asked(v).id ELSE "none"
         IN Content(buffer', edited) = Content(buffer, edited)
<1> SUFFICES ASSUME ViewInv, [ViewNext]_viewVars, NEW v \in Views, Landed(v), OneBlock(Asked(v))
             PROVE  Content(buffer', Edited(Asked(v))) = Content(buffer, Edited(Asked(v)))
  BY DEF Edited
<1> DEFINE r == Asked(v)
<1>1. /\ IsSeq(buffer) /\ IsSeq(buffer') /\ WellPlaced(buffer) /\ Paired(buffer) /\ UniqueIds(buffer)
      /\ Made(r, buffer, buffer') /\ buffer' # buffer
  BY LandedMakes
<1>2. OneBlock(r)
  OBVIOUS
<1> HIDE DEF r
<1>3. Content(buffer', Edited(r)) = Content(buffer, Edited(r))
  BY <1>1, <1>2, MadeContent
<1> QED
  BY <1>3 DEF r

\* Whatever the board or the inline view writes into the text it was made for, each atom
\* keeps its block and its attributes, and no block is lost, doubled or joined with another
\* (AtomsKeepTheirBlocks).
THEOREM BlocksStay == ViewSpec => AtomsKeepTheirBlocks
<1>1. ViewInv /\ [ViewNext]_viewVars =>
    [\A v \in Views : (Landed(v) /\ OneBlock(Asked(v))) =>
         LET edited == IF Asked(v).op = "block" THEN Asked(v).id ELSE "none"
         IN Content(buffer', edited) = Content(buffer, edited)]_viewVars
  BY ContentStep
<1> QED
  BY <1>1, ViewsAreConsistent, PTL DEF ViewSpec, AtomsKeepTheirBlocks

========================================
