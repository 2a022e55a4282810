-------------------------- MODULE ReceiversProofs --------------------------
(***************************************************************************)
(* For any contacts, groups, avatars and loads: the exclusive cells are    *)
(* alone and nobody gets the picture unseen.                               *)
(***************************************************************************)
EXTENDS Receivers, FiniteSetTheorems, TLAPS

\* ExclusiveAlone with its cardinality spelt out.
AloneInv ==
  /\ exclusive = {} \/ \E c \in Cells : exclusive = {c}
  /\ selectable <=> exclusive = {}
  /\ exclusive # {} => picked = {} /\ pickedSpaces = {} /\ bar = NoAvatars

Of(S, url) == {u \in S : AvatarUrl[u] = url}

-----------------------------------------------------------------------------
(* Types *)

LEMMA BarTypes ==
  ASSUME TypeOK, NEW url \in Urls
  PROVE  /\ AddReceiver(url) => bar' \in [Urls -> Nat] /\ crowded' \in BOOLEAN
         /\ RemoveReceiver(url) => bar' \in [Urls -> Nat] /\ crowded' \in BOOLEAN
         /\ RemoveAllReceiver => bar' \in [Urls -> Nat] /\ crowded' \in BOOLEAN
  <1>1. bar \in [Urls -> Nat] /\ crowded \in BOOLEAN
    BY DEF TypeOK
  <1>2. ASSUME AddReceiver(url)
        PROVE  bar' \in [Urls -> Nat] /\ crowded' \in BOOLEAN
    <2>1. CASE bar' = [bar EXCEPT ![url] = @ + 1] /\ crowded' = crowded
      BY <1>1, <2>1
    <2>2. CASE crowded' = TRUE /\ bar' = bar
      BY <1>1, <2>2
    <2> QED
      BY <1>2, <2>1, <2>2 DEF AddReceiver
  <1>3. ASSUME RemoveReceiver(url)
        PROVE  bar' \in [Urls -> Nat] /\ crowded' \in BOOLEAN
    BY <1>1, <1>3 DEF RemoveReceiver
  <1>4. ASSUME RemoveAllReceiver
        PROVE  bar' \in [Urls -> Nat] /\ crowded' \in BOOLEAN
    BY <1>4 DEF RemoveAllReceiver, NoAvatars
  <1> QED
    BY <1>2, <1>3, <1>4

LEMMA ListTypes ==
  ASSUME TypeOK, UpdateListData(contacts)
  PROVE  people' \in SUBSET (Users \ {Me}) /\ picked' \in SUBSET people'
  BY DEF TypeOK, UpdateListData

LEMMA LoadTypes ==
  ASSUME TypeOK, NEW l \in Loads, LoadData(l)
  PROVE  /\ people' \in SUBSET (Users \ {Me}) /\ picked' \in SUBSET people'
         /\ saving' \in SUBSET Loads /\ asking' \in SUBSET Loads
         /\ request' \in [Loads -> {"none", "creating", "sent", "answered"}]
         /\ answer' \in [Loads -> SUBSET Groups]
  BY ListTypes DEF TypeOK, LoadData

LEMMA CloseTypes ==
  ASSUME TypeOK, Close
  PROVE  TypeOK'
  BY BarTypes DEF TypeOK, Close, RemoveAllReceiver, NoAvatars

LEMMA InitTypes ==
  ASSUME Init
  PROVE  TypeOK
  BY ReceiversAssumption DEF Init, TypeOK, NoAvatars, ReceiversAssumption

LEMMA LoadingTypes ==
  ASSUME TypeOK, NEW l \in Loads,
         \/ \E table \in Tables : SaveContacts(l, table)
         \/ ContactsLoaded(l) \/ ContactsFail(l)
         \/ AnswerSpaces(l) \/ SpacesLoaded(l) \/ SpacesFail(l)
         \/ CreateGroup(l) \/ GroupFails(l)
         \/ \E g \in Groups : GroupCreated(l, g)
  PROVE  TypeOK'
  <1>1. CASE \E table \in Tables : SaveContacts(l, table)
    BY <1>1, ReceiversAssumption
    DEF TypeOK, SaveContacts, lists, marks, ReceiversAssumption
  <1>2. CASE ContactsLoaded(l)
    BY <1>2, ListTypes DEF TypeOK, ContactsLoaded, marks
  <1>3. CASE ContactsFail(l)
    BY <1>3 DEF TypeOK, ContactsFail, lists, marks
  <1>4. CASE AnswerSpaces(l)
    BY <1>4 DEF TypeOK, AnswerSpaces, lists, marks
  <1>5. CASE SpacesLoaded(l)
    BY <1>5 DEF TypeOK, SpacesLoaded, marks
  <1>6. CASE SpacesFail(l)
    BY <1>6 DEF TypeOK, SpacesFail, lists, marks
  <1>7. CASE CreateGroup(l)
    BY <1>7 DEF TypeOK, CreateGroup, lists, marks
  <1>8. CASE GroupFails(l)
    BY <1>8 DEF TypeOK, GroupFails, lists, marks
  <1>9. CASE \E g \in Groups : GroupCreated(l, g)
    BY <1>9 DEF TypeOK, GroupCreated, lists, marks
  <1> QED
    BY <1>1, <1>2, <1>3, <1>4, <1>5, <1>6, <1>7, <1>8, <1>9

LEMMA TapPersonTypes ==
  ASSUME TypeOK, NEW u \in Users, TapPerson(u)
  PROVE  TypeOK'
  <1>1. AvatarUrl[u] \in Urls
    BY ReceiversAssumption DEF ReceiversAssumption
  <1>2. bar' \in [Urls -> Nat] /\ crowded' \in BOOLEAN
    BY <1>1, BarTypes DEF TapPerson
  <1>3. picked' \in SUBSET people /\ people' = people
    BY DEF TapPerson, TypeOK
  <1> QED
    BY <1>2, <1>3 DEF TapPerson, TypeOK, requests

LEMMA CellTypes ==
  ASSUME TypeOK, NEW c \in Cells, SelectCell(c) \/ UnselectCell(c)
  PROVE  TypeOK'
  <1>1. CASE SelectCell(c)
    <2>1. bar' \in [Urls -> Nat] /\ crowded' \in BOOLEAN
      BY <1>1 DEF SelectCell, RemoveAllReceiver, NoAvatars
    <2> QED
      BY <1>1, <2>1 DEF SelectCell, TypeOK, requests
  <1>2. CASE UnselectCell(c)
    BY <1>2 DEF UnselectCell, TypeOK, requests, lists
  <1> QED
    BY <1>1, <1>2

LEMMA StepTypes ==
  ASSUME TypeOK, [Next]_vars
  PROVE  TypeOK'
  <1>1. CASE Open
    BY <1>1, LoadTypes DEF Open, TypeOK, marks
  <1>2. CASE Refresh
    BY <1>2, LoadTypes DEF Refresh, TypeOK, marks
  <1>3. CASE Back \/ Send
    BY <1>3, CloseTypes DEF Back, Send
  <1>4. ASSUME NEW u \in Users, TapPerson(u)
        PROVE  TypeOK'
    BY <1>4, TapPersonTypes
  <1>5. ASSUME NEW g \in Groups, TapSpace(g) \/ GroupAppears(g)
        PROVE  TypeOK'
    BY <1>5 DEF TapSpace, GroupAppears, TypeOK, marks, requests, lists
  <1>6. CASE UNCHANGED vars
    BY <1>6 DEF vars, TypeOK, lists, marks, requests
  <1> QED
    BY <1>1, <1>2, <1>3, <1>4, <1>5, <1>6, LoadingTypes, CellTypes DEF Next

\* TypeOK of Receivers: whatever is ticked is in the list that is shown.
THEOREM TypeCorrect == Spec => []TypeOK
  <1>1. Init => TypeOK
    BY InitTypes
  <1>2. TypeOK /\ [Next]_vars => TypeOK'
    BY StepTypes
  <1> QED
    BY <1>1, <1>2, PTL DEF Spec

-----------------------------------------------------------------------------
(* The cells.  The rows' taps need selectable, the loads only untick: each   *)
(* other action changes the cells and everything they exclude in one block.  *)

LEMMA InitAlone ==
  ASSUME Init
  PROVE  AloneInv
  BY DEF Init, AloneInv

LEMMA LoadAlone ==
  ASSUME AloneInv,
         UNCHANGED marks,
         picked' = picked \/ picked' = {},
         pickedSpaces' = pickedSpaces \/ pickedSpaces' = {}
  PROVE  AloneInv'
  BY DEF AloneInv, marks, NoAvatars

LEMMA StepAlone ==
  ASSUME TypeOK, AloneInv, [Next]_vars
  PROVE  AloneInv'
  <1>1. CASE Open \/ Refresh
    <2>1. UNCHANGED <<pickedSpaces, marks>>
      BY <1>1 DEF Open, Refresh
    <2>2. picked' = {}
      BY <1>1 DEF Open, Refresh, LoadData, UpdateListData
    <2> QED
      BY <2>1, <2>2, LoadAlone
  <1>2. CASE Back \/ Send
    BY <1>2 DEF Back, Send, Close, AloneInv, RemoveAllReceiver
  <1>3. ASSUME NEW l \in Loads,
               \/ \E table \in Tables : SaveContacts(l, table)
               \/ ContactsLoaded(l) \/ ContactsFail(l)
               \/ AnswerSpaces(l) \/ SpacesLoaded(l) \/ SpacesFail(l)
               \/ CreateGroup(l) \/ GroupFails(l)
               \/ \E g \in Groups : GroupCreated(l, g)
        PROVE  AloneInv'
    <2>1. CASE ContactsLoaded(l)
      <3>1. UNCHANGED <<pickedSpaces, marks>> /\ picked' = {}
        BY <2>1 DEF ContactsLoaded, UpdateListData
      <3> QED
        BY <3>1, LoadAlone
    <2>2. CASE SpacesLoaded(l)
      <3>1. UNCHANGED <<picked, marks>> /\ pickedSpaces' = {}
        BY <2>2 DEF SpacesLoaded
      <3> QED
        BY <3>1, LoadAlone
    <2>3. CASE ~ContactsLoaded(l) /\ ~SpacesLoaded(l)
      <3>1. UNCHANGED <<lists, marks>>
        BY <1>3, <2>3
        DEF SaveContacts, ContactsFail, AnswerSpaces, SpacesFail, CreateGroup,
            GroupFails, GroupCreated
      <3>2. UNCHANGED <<picked, pickedSpaces, marks>>
        BY <3>1 DEF lists
      <3> QED
        BY <3>2, LoadAlone
    <2> QED
      BY <2>1, <2>2, <2>3
  <1>4. ASSUME NEW u \in Users, TapPerson(u)
        PROVE  AloneInv'
    BY <1>4 DEF TapPerson, AloneInv
  <1>5. ASSUME NEW g \in Groups, TapSpace(g)
        PROVE  AloneInv'
    BY <1>5 DEF TapSpace, AloneInv, marks
  <1>6. ASSUME NEW g \in Groups, GroupAppears(g)
        PROVE  AloneInv'
    BY <1>6, LoadAlone DEF GroupAppears, lists
  <1>7. ASSUME NEW c \in Cells, SelectCell(c)
        PROVE  AloneInv'
    BY <1>7 DEF SelectCell, AloneInv, RemoveAllReceiver, NoAvatars
  <1>8. ASSUME NEW c \in Cells, UnselectCell(c)
        PROVE  AloneInv'
    BY <1>8 DEF UnselectCell, AloneInv, lists
  <1>9. CASE UNCHANGED vars
    BY <1>9, LoadAlone DEF vars, lists
  <1> QED
    BY <1>1, <1>2, <1>3, <1>4, <1>5, <1>6, <1>7, <1>8, <1>9 DEF Next

\* ExclusiveAlone of Receivers: with "all friends" or "my memories" selected
\* nothing else is, whatever load ends meanwhile.
THEOREM CellsAreAlone == Spec => []ExclusiveAlone
  <1>1. Init => TypeOK /\ AloneInv
    BY InitTypes, InitAlone
  <1>2. TypeOK /\ AloneInv /\ [Next]_vars => (TypeOK /\ AloneInv)'
    BY StepTypes, StepAlone
  <1>3. AloneInv => ExclusiveAlone
    <2> SUFFICES ASSUME AloneInv
                 PROVE  Cardinality(exclusive) <= 1
      BY DEF AloneInv, ExclusiveAlone
    <2>1. Cardinality(exclusive) = 0 \/ Cardinality(exclusive) = 1
      BY FS_EmptySet, FS_Singleton DEF AloneInv
    <2> QED
      BY <2>1
  <1> QED
    BY <1>1, <1>2, <1>3, PTL DEF Spec

-----------------------------------------------------------------------------
(* The bar *)

LEMMA OfFinite ==
  ASSUME NEW S \in SUBSET Users, NEW url
  PROVE  IsFiniteSet(Of(S, url)) /\ Cardinality(Of(S, url)) \in Nat
  <1>1. IsFiniteSet(Users) /\ Of(S, url) \in SUBSET Users
    BY ReceiversAssumption DEF ReceiversAssumption, Of
  <1> QED
    BY <1>1, FS_Subset, FS_CardinalityType

LEMMA NobodyPicked ==
  ASSUME picked' = {}, bar' \in [Urls -> Nat]
  PROVE  AudienceIsShown'
  <1>1. ASSUME NEW url \in Urls
        PROVE  Cardinality({u \in picked' : AvatarUrl[u] = url}) <= bar'[url]
    <2>1. {u \in picked' : AvatarUrl[u] = url} = {}
      OBVIOUS
    <2>2. Cardinality({}) = 0 /\ bar'[url] \in Nat
      BY FS_EmptySet
    <2> QED
      BY <2>1, <2>2
  <1> QED
    BY <1>1 DEF AudienceIsShown

LEMMA TapShown ==
  ASSUME TypeOK, AudienceIsShown, NEW v \in Users, TapPerson(v)
  PROVE  AudienceIsShown'
  <1> DEFINE a == AvatarUrl[v]
  <1>1. a \in Urls /\ picked \in SUBSET Users /\ bar \in [Urls -> Nat]
    BY ReceiversAssumption DEF ReceiversAssumption, TypeOK
  <1>2. CASE crowded'
    BY <1>2 DEF AudienceIsShown
  <1>3. CASE ~crowded'
    <2>1. ~crowded
      BY <1>3 DEF TapPerson, AddReceiver, RemoveReceiver
    <2>2. \A url \in Urls : Cardinality(Of(picked, url)) <= bar[url]
      BY <2>1 DEF AudienceIsShown, Of
    <2>3. \A url \in Urls : Cardinality(Of(picked', url)) <= bar'[url]
      <3>1. CASE v \notin picked /\ picked' = picked \cup {v} /\ AddReceiver(a)
        <4>1. bar' = [bar EXCEPT ![a] = bar[a] + 1]
          BY <3>1, <1>3 DEF AddReceiver
        <4>2. Of(picked', a) = Of(picked, a) \cup {v} /\ v \notin Of(picked, a)
          BY <3>1 DEF Of
        <4>3. Cardinality(Of(picked', a)) = Cardinality(Of(picked, a)) + 1
          BY <4>2, <1>1, OfFinite, FS_AddElement
        <4>4. ASSUME NEW url \in Urls, url # a
              PROVE  Of(picked', url) = Of(picked, url)
          BY <3>1, <4>4 DEF Of
        <4>5. Cardinality(Of(picked, a)) \in Nat /\ bar[a] \in Nat
          BY <1>1, OfFinite
        <4>6. Cardinality(Of(picked', a)) <= bar'[a]
          BY <4>1, <4>3, <4>5, <2>2, <1>1
        <4>7. ASSUME NEW url \in Urls, url # a
              PROVE  Cardinality(Of(picked', url)) <= bar'[url]
          BY <4>1, <4>4, <4>7, <2>2, <1>1
        <4> QED
          BY <4>6, <4>7
      <3>2. CASE v \in picked /\ picked' = picked \ {v} /\ RemoveReceiver(a)
        <4>1. bar' = [bar EXCEPT ![a] = IF bar[a] > 0 THEN bar[a] - 1 ELSE 0]
          BY <3>2 DEF RemoveReceiver
        <4>2. Of(picked', a) = Of(picked, a) \ {v} /\ v \in Of(picked, a)
          BY <3>2 DEF Of
        <4>3. Cardinality(Of(picked', a)) = Cardinality(Of(picked, a)) - 1
          <5>1. IsFiniteSet(Of(picked, a))
            BY <1>1, OfFinite
          <5>2. Cardinality(Of(picked, a) \ {v}) = Cardinality(Of(picked, a)) - 1
            BY <4>2, <5>1, FS_RemoveElement
          <5> QED
            BY <4>2, <5>2
        <4>4. ASSUME NEW url \in Urls, url # a
              PROVE  Of(picked', url) = Of(picked, url)
          BY <3>2, <4>4 DEF Of
        <4>5. /\ Cardinality(Of(picked, a)) \in Nat /\ bar[a] \in Nat
              /\ Cardinality(Of(picked', a)) \in Nat
          BY <1>1, <3>2, OfFinite
        <4>6. Cardinality(Of(picked', a)) <= bar'[a]
          BY <4>1, <4>3, <4>5, <2>2, <1>1
        <4>7. ASSUME NEW url \in Urls, url # a
              PROVE  Cardinality(Of(picked', url)) <= bar'[url]
          BY <4>1, <4>4, <4>7, <2>2, <1>1
        <4> QED
          BY <4>6, <4>7
      <3> QED
        BY <3>1, <3>2 DEF TapPerson
    <2> QED
      BY <2>3 DEF AudienceIsShown, Of
  <1> QED
    BY <1>2, <1>3

LEMMA StepShown ==
  ASSUME TypeOK, AudienceIsShown, [Next]_vars
  PROVE  AudienceIsShown'
  <1> DEFINE Same == UNCHANGED <<picked, bar, crowded>>
  <1>1. CASE Same
    BY <1>1 DEF AudienceIsShown
  <1>2. CASE picked' = {}
    BY <1>2, StepTypes, NobodyPicked DEF TypeOK
  <1>3. Same \/ picked' = {} \/ \E u \in Users : TapPerson(u)
    <2>1. CASE Open \/ Refresh
      BY <2>1 DEF Open, Refresh, LoadData, UpdateListData
    <2>2. CASE Back \/ Send
      BY <2>2 DEF Back, Send, Close
    <2>3. ASSUME NEW l \in Loads,
                 \/ \E table \in Tables : SaveContacts(l, table)
                 \/ ContactsLoaded(l) \/ ContactsFail(l)
                 \/ AnswerSpaces(l) \/ SpacesLoaded(l) \/ SpacesFail(l)
                 \/ CreateGroup(l) \/ GroupFails(l)
                 \/ \E g \in Groups : GroupCreated(l, g)
          PROVE  Same \/ picked' = {}
      BY <2>3
      DEF SaveContacts, ContactsLoaded, ContactsFail, AnswerSpaces, SpacesLoaded,
          SpacesFail, CreateGroup, GroupFails, GroupCreated, UpdateListData, lists, marks
    <2>4. ASSUME NEW g \in Groups, TapSpace(g) \/ GroupAppears(g)
          PROVE  Same
      BY <2>4 DEF TapSpace, GroupAppears, lists, marks
    <2>5. ASSUME NEW c \in Cells, SelectCell(c) \/ UnselectCell(c)
          PROVE  Same \/ picked' = {}
      BY <2>5 DEF SelectCell, UnselectCell, lists
    <2>6. CASE UNCHANGED vars
      BY <2>6 DEF vars, lists, marks
    <2> QED
      BY <2>1, <2>2, <2>3, <2>4, <2>5, <2>6 DEF Next
  <1> QED
    BY <1>1, <1>2, <1>3, TapShown

\* AudienceIsShown of Receivers: while the bar has had a place for everybody,
\* it shows an avatar for each person selected, also for those with one URL.
THEOREM BarShowsAudience == Spec => []AudienceIsShown
  <1>1. Init => TypeOK /\ AudienceIsShown
    <2> SUFFICES ASSUME Init
                 PROVE  AudienceIsShown
      BY InitTypes
    <2>1. ASSUME NEW url \in Urls
          PROVE  Cardinality({u \in picked : AvatarUrl[u] = url}) <= bar[url]
      <3>1. {u \in picked : AvatarUrl[u] = url} = {}
        BY DEF Init
      <3>2. Cardinality({}) = 0 /\ bar[url] = 0
        BY FS_EmptySet DEF Init, NoAvatars
      <3> QED
        BY <3>1, <3>2
    <2> QED
      BY <2>1 DEF AudienceIsShown
  <1>2. TypeOK /\ AudienceIsShown /\ [Next]_vars => (TypeOK /\ AudienceIsShown)'
    BY StepTypes, StepShown
  <1> QED
    BY <1>1, <1>2, PTL DEF Spec
==============================================================================
