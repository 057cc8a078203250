-------------------------- MODULE TranslationBuffer --------------------------
(***************************************************************************)
(* One of the translation buffers of a CPU (state.tb[t]): fills and        *)
(* lookups, the entry each kind of access found last, and what PALcode     *)
(* invalidates.                                                            *)
(*                                                                         *)
(* The page tables and the guest that keeps them are external.  Pages      *)
(* come in blocks of two, each mapped by single pages or as one            *)
(* (granularity hint); the pages of Global are mapped alike in every       *)
(* address space (ASM). A guest that changes a mapping stays away from     *)
(* it in an address space until it has invalidated every page of it        *)
(* there.                                                                  *)
(***************************************************************************)
EXTENDS Integers, FiniteSetsExt

CONSTANTS
  Entries,   \* TB_ENTRIES, at least 1
  Asn,       \* address space numbers
  Page,      \* virtual pages, 0 .. 2n - 1
  Global,    \* those of them that are in every address space
  Version,   \* places a block may be mapped to
  MaxChanging  \* bound: spaces that are being changed at a time

(* What the buffer relies on: blocks are whole, in Global or out of it.       *)
ParametersOK ==
  /\ Entries \in Nat \ {0} /\ Asn \subseteq Nat
  /\ Version \subseteq Nat /\ Version # {}
  /\ Global \subseteq Page /\ Page \subseteq Nat
  /\ \A p \in Page : p - (p % 2) \in Page /\ (p \in Global <=> p - (p % 2) \in Global)

Slot == 0 .. Entries - 1
None == -1
Access == {"read", "write"}
Size(gh) == IF gh = 1 THEN 2 ELSE 1
First(p, gh) == p - (p % Size(gh))

VARIABLES
  tb,      \* the entries
  last,    \* last_found_tb, per kind of access
  next,    \* next_tb
  asn,     \* the current address space (asn0)
  pt,      \* the page tables: per address space, and for the global pages
  owed     \* pages whose mapping has changed since they were invalidated
vars == <<tb, last, next, asn, pt, owed>>
tbVars == <<tb, last, next>>

(* Address spaces are numbers: the global pages have one of their own.       *)
Everywhere == -1
SpaceOf(a, p) == IF p \in Global THEN Everywhere ELSE a
PagesOf(s) == IF s = Everywhere THEN Global ELSE Page \ Global
BlockOf(p) == {q \in Page : First(q, 1) = First(p, 1)}
Mapping == [gh : {0, 1}, version : Version]

(* The frame of a page: single pages lie in reverse order. *)
Frame(m, p) == 2 * m.version + (IF m.gh = 1 THEN p % 2 ELSE 1 - (p % 2))
Pte(p) == pt[SpaceOf(asn, p)]

(* What an invalid entry holds is never used. *)
Invalid == [valid |-> FALSE, virt |-> 0, gh |-> 0, phys |-> 0, asm |-> FALSE, asn |-> 0]

Init ==
  /\ tb = [i \in Slot |-> Invalid]
  /\ last = [rw \in Access |-> 0] /\ next = 0
  /\ asn \in Asn
  /\ pt \in [Asn \cup {Everywhere} -> {[gh |-> 0, version |-> CHOOSE v \in Version : TRUE]}]
  /\ owed = {}

-----------------------------------------------------------------------------
Matches(e, p, a) == e.valid /\ First(p, e.gh) = e.virt /\ (e.asm \/ e.asn = a)

(* FindTBEntry(): the entry found last, if it matches, else the first one.  *)
(* Mutant: the entry found last is not compared with the address space.     *)
Find_AnyAsn(p, rw) ==
  LET hits == {i \in Slot : Matches(tb[i], p, asn)}
      hint == last[rw]
  IN IF Matches(tb[hint], p, tb[hint].asn) THEN hint ELSE IF hits # {} THEN Min(hits) ELSE None

Find(p, rw) ==
  LET hits == {i \in Slot : Matches(tb[i], p, asn)}
  IN IF last[rw] \in hits THEN last[rw] ELSE IF hits # {} THEN Min(hits) ELSE None

Found(rw, i) == last' = IF i = None THEN last ELSE [last EXCEPT ![rw] = i]

(* An access that hits; one that misses goes to PALcode, which fills.        *)
Allowed(p) == \A q \in BlockOf(p) : <<SpaceOf(asn, p), q>> \notin owed
Lookup(p, rw) ==
  /\ Allowed(p)
  /\ Find(p, rw) # None /\ Found(rw, Find(p, rw))
  /\ UNCHANGED <<tb, next, asn, pt, owed>>

(* add_tb(): over the entry that maps the page already, else round robin.    *)
Place(p, i) ==
  /\ tb' = [tb EXCEPT ![i] =
       [valid |-> TRUE, virt |-> First(p, Pte(p).gh), gh |-> Pte(p).gh,
        phys |-> Frame(Pte(p), First(p, Pte(p).gh)), asm |-> p \in Global, asn |-> asn]]
  /\ last' = [last EXCEPT !["read"] = i]

(* Mutant: an entry that maps the page already is left where it is. *)
Fill_Twice(p) ==
  /\ Allowed(p)
  /\ Place(p, next) /\ next' = (next + 1) % Entries
  /\ UNCHANGED <<asn, pt, owed>>
Fill(p) ==
  /\ Allowed(p)
  /\ IF Find(p, "read") # None
     THEN Place(p, Find(p, "read")) /\ UNCHANGED next
     ELSE Place(p, next) /\ next' = (next + 1) % Entries
  /\ UNCHANGED <<asn, pt, owed>>

-----------------------------------------------------------------------------
(* tbia(), tbiap() and tbis(), and what they let the guest use again.        *)
Tbia ==
  /\ tb' = [i \in Slot |-> Invalid]
  /\ last' = [rw \in Access |-> 0] /\ next' = 0
  /\ owed' = {}
  /\ UNCHANGED <<asn, pt>>
Tbiap ==
  /\ tb' = [i \in Slot |-> IF tb[i].asm THEN tb[i] ELSE Invalid]
  /\ owed' = {o \in owed : o[1] = Everywhere}
  /\ UNCHANGED <<last, next, asn, pt>>

(* Mutant: only the entry found last is looked at. *)
Tbis_HintOnly(p) ==
  /\ LET i == last["read"]
     IN tb' = IF Matches(tb[i], p, asn) THEN [tb EXCEPT ![i] = Invalid] ELSE tb
  /\ owed' = owed \ {<<SpaceOf(asn, p), p>>}
  /\ UNCHANGED <<last, next, asn, pt>>
Tbis(p) ==
  /\ LET i == Find(p, "read")
     IN /\ tb' = IF i = None THEN tb ELSE [tb EXCEPT ![i] = Invalid]
        /\ Found("read", i)
  /\ owed' = owed \ {<<SpaceOf(asn, p), p>>}
  /\ UNCHANGED <<next, asn, pt>>

(* MTPR DTB_ASN. *)
SetAsn(a) ==
  /\ a # asn /\ asn' = a
  /\ UNCHANGED <<tbVars, pt, owed>>

(* The guest maps the pages of a space elsewhere, or by another granularity. *)
Remap(s, m) ==
  /\ m # pt[s] /\ Cardinality({o[1] : o \in owed \cup {<<s, 0>>}}) <= MaxChanging
  /\ pt' = [pt EXCEPT ![s] = m]
  /\ owed' = owed \cup ({s} \X PagesOf(s))
  /\ UNCHANGED <<tbVars, asn>>

Next ==
  \/ \E p \in Page : Fill(p) \/ Tbis(p) \/ (\E rw \in Access : Lookup(p, rw))
  \/ Tbia \/ Tbiap
  \/ \E a \in Asn : SetAsn(a)
  \/ \E s \in Asn \cup {Everywhere}, m \in Mapping : Remap(s, m)

Spec == Init /\ [][Next]_vars

-----------------------------------------------------------------------------
TypeOK ==
  /\ tb \in [Slot -> [valid : BOOLEAN, virt : Page \cup {0}, gh : 0 .. 1, phys : Nat,
                      asm : BOOLEAN, asn : Asn \cup {0}]]
  /\ last \in [Access -> Slot] /\ next \in Slot /\ asn \in Asn
  /\ pt \in [Asn \cup {Everywhere} -> Mapping]
  /\ owed \subseteq (Asn \cup {Everywhere}) \X Page

(* A lookup never gives a stale or foreign translation, whichever entry was   *)
(* found last and whatever fills, invalidations and changes of the address    *)
(* space came before: what the buffer holds of a page the guest may use is    *)
(* what its page table says.                                                  *)
Current ==
  \A p \in Page, rw \in Access :
    Allowed(p) /\ Find(p, rw) # None =>
      LET e == tb[Find(p, rw)] IN e.phys + (p % Size(e.gh)) = Frame(Pte(p), p)
=============================================================================
