----------------------------- MODULE Receivers -----------------------------
(***************************************************************************)
(* Choosing who gets a picture: RSReceiverListWithSpaceViewController shows *)
(* the contacts, the group spaces and two cells, "all friends" and "my     *)
(* memories", that exclude everything else.  What is ticked when the user  *)
(* presses send is the audience the posting pipeline (SpaceCreate) starts  *)
(* from.                                                                   *)
(*                                                                         *)
(* A tick is the isSelected of a row's item, and a load that ends builds   *)
(* new items: it may come while the user is choosing, from the opening of  *)
(* the screen, a pull to refresh or a group just created.  The bar of      *)
(* avatars under the list is changed by the taps alone.                    *)
(*                                                                         *)
(* Everything runs on the main queue, a handler to its end.  Sending is    *)
(* one handler too: the signal of RSSpaceCreateViewModel completes within  *)
(* the subscription.                                                       *)
(***************************************************************************)
EXTENDS Naturals, FiniteSets, Functions

CONSTANTS
  Users,      \* the uids a contact may have
  Me,         \* the uid of the user, who is not listed
  Urls,       \* avatar URLs
  AvatarUrl,  \* each user's; several may have the same (none set, say)
  Groups,     \* the ids of group spaces
  Places,     \* how many avatars the bar takes, 5 in the code
  Tables,     \* bound: what the table of contacts may become
  Loads       \* bound: loads and creations of groups under way together

ASSUME ReceiversAssumption ==
  /\ Me \in Users /\ AvatarUrl \in [Users -> Urls]
  /\ Places \in Nat /\ IsFiniteSet(Users)
  /\ Tables \subseteq SUBSET Users

VARIABLES
  contacts,      \* table RSContactModel: the uids not marked deleted
  groups,        \* the backend's group spaces of the user
  open,          \* the screen is there
  people,        \* listData of RSReceiverListViewModel
  picked,        \* those of them that are selected
  spaces,        \* listData of RSReceiverSpaceViewModel
  pickedSpaces,  \* those of them that are selected
  exclusive,     \* the selected ones among the two cells
  selectable,    \* allowsSelection of both lists
  bar,           \* the avatars in the bar: how many of each URL
  saving,        \* loads whose contacts RSContactService waits for
  asking,        \* loads whose contacts the screen waits for
  request,       \* each load's request about spaces
  answer,        \* what is in its answer
  crowded        \* history: the bar had no place for an avatar

lists == <<people, picked, spaces, pickedSpaces>>
requests == <<saving, asking, request, answer>>
marks == <<exclusive, selectable, bar, crowded>>
vars == <<contacts, groups, open, lists, marks, requests>>

Cells == {"friends", "memories"}
NoAvatars == [url \in Urls |-> 0]

Init ==
  /\ contacts \in Tables /\ groups \in SUBSET Groups
  /\ open = FALSE
  /\ people = {} /\ picked = {} /\ spaces = {} /\ pickedSpaces = {}
  /\ exclusive = {} /\ selectable = TRUE
  /\ bar = NoAvatars /\ crowded = FALSE
  /\ saving = {} /\ asking = {}
  /\ request = [l \in Loads |-> "none"] /\ answer = [l \in Loads |-> {}]

(***************************************************************************)
(* Loading.  updateListData builds a new list of items; defaultToUsers is  *)
(* never set at this commit, so nobody in it is selected.                  *)
(***************************************************************************)
UpdateListDataKeeping(table) ==   \* mutant: the selection outlives the list
  /\ people' = table \ {Me}
  /\ UNCHANGED picked

UpdateListData(table) ==
  /\ people' = table \ {Me}
  /\ picked' = {}

Free(l) == l \notin saving \cup asking /\ request[l] = "none"

\* The contacts of the table at once; then a request that the service and the
\* screen both subscribe to, so that it is sent twice; and one for the spaces.
LoadData(l) ==
  /\ Free(l)
  /\ UpdateListData(contacts)
  /\ saving' = saving \cup {l} /\ asking' = asking \cup {l}
  /\ request' = [request EXCEPT ![l] = "sent"]
  /\ UNCHANGED answer

\* The screen is pushed.
Open ==
  /\ ~open /\ open' = TRUE
  /\ \E l \in Loads : LoadData(l)
  /\ UNCHANGED <<contacts, groups, spaces, pickedSpaces, marks>>

\* Pull to refresh.
Refresh ==
  /\ open
  /\ \E l \in Loads : LoadData(l)
  /\ UNCHANGED <<contacts, groups, open, spaces, pickedSpaces, marks>>

\* The service's copy of the request is answered: the table is written.  The
\* sync writes it too, so any table may be the result.
SaveContacts(l, table) ==
  /\ l \in saving
  /\ saving' = saving \ {l}
  /\ contacts' = table
  /\ UNCHANGED <<groups, open, lists, marks, asking, request, answer>>

\* The screen's own copy completes: it shows the table of that moment, which
\* may be from before the service's copy was answered.
ContactsLoaded(l) ==
  /\ l \in asking
  /\ asking' = asking \ {l}
  /\ UpdateListData(contacts)
  /\ UNCHANGED <<contacts, groups, open, spaces, pickedSpaces, marks, saving,
                 request, answer>>

\* Either copy fails; the screen only ends the refreshing.
ContactsFail(l) ==
  /\ \/ l \in saving /\ saving' = saving \ {l} /\ UNCHANGED asking
     \/ l \in asking /\ asking' = asking \ {l} /\ UNCHANGED saving
  /\ UNCHANGED <<contacts, groups, open, lists, marks, request, answer>>

\* The backend answers with the groups of that moment; answers overlap.
AnswerSpaces(l) ==
  /\ request[l] = "sent"
  /\ request' = [request EXCEPT ![l] = "answered"]
  /\ answer' = [answer EXCEPT ![l] = groups]
  /\ UNCHANGED <<contacts, groups, open, lists, marks, saving, asking>>

SpacesLoaded(l) ==
  /\ request[l] = "answered"
  /\ request' = [request EXCEPT ![l] = "none"]
  /\ answer' = [answer EXCEPT ![l] = {}]
  /\ spaces' = answer[l] /\ pickedSpaces' = {}
  /\ UNCHANGED <<contacts, groups, open, people, picked, marks, saving, asking>>

SpacesFail(l) ==
  /\ request[l] = "sent"
  /\ request' = [request EXCEPT ![l] = "none"]
  /\ UNCHANGED <<contacts, groups, open, lists, marks, saving, asking, answer>>

(***************************************************************************)
(* Creating a group, and groups others create.                             *)
(***************************************************************************)
CreateGroup(l) ==
  /\ open /\ Free(l)
  /\ request' = [request EXCEPT ![l] = "creating"]
  /\ UNCHANGED <<contacts, groups, open, lists, marks, saving, asking, answer>>

\* The spaces, not the contacts, are loaded again.
GroupCreated(l, g) ==
  /\ request[l] = "creating" /\ g \notin groups
  /\ groups' = groups \cup {g}
  /\ request' = [request EXCEPT ![l] = "sent"]
  /\ UNCHANGED <<contacts, open, lists, marks, saving, asking, answer>>

\* Also when the group was created and only the answer was lost: GroupAppears.
GroupFails(l) ==
  /\ request[l] = "creating"
  /\ request' = [request EXCEPT ![l] = "none"]
  /\ UNCHANGED <<contacts, groups, open, lists, marks, saving, asking, answer>>

GroupAppears(g) ==
  /\ g \notin groups
  /\ groups' = groups \cup {g}
  /\ UNCHANGED <<contacts, open, lists, marks, requests>>

(***************************************************************************)
(* The bar: RSReceiverAvatarStackView.                                     *)
(***************************************************************************)
InBar == FoldFunction(+, 0, bar)

AddReceiver(url) ==
  \/ /\ InBar < Places
     /\ bar' = [bar EXCEPT ![url] = @ + 1]
     /\ UNCHANGED crowded
  \/ /\ InBar >= Places
     /\ crowded' = TRUE
     /\ UNCHANGED bar

RemoveEvery(url) ==   \* mutant: the loop does not stop at the first match
  /\ bar' = [bar EXCEPT ![url] = 0]
  /\ UNCHANGED crowded

RemoveReceiver(url) ==
  /\ bar' = [bar EXCEPT ![url] = IF @ > 0 THEN @ - 1 ELSE 0]
  /\ UNCHANGED crowded

RemoveAllReceiver == bar' = NoAvatars /\ crowded' = FALSE

(***************************************************************************)
(* Taps.                                                                   *)
(***************************************************************************)
TapPerson(u) ==
  /\ open /\ selectable /\ u \in people
  /\ \/ /\ u \notin picked
        /\ picked' = picked \cup {u} /\ AddReceiver(AvatarUrl[u])
     \/ /\ u \in picked
        /\ picked' = picked \ {u} /\ RemoveReceiver(AvatarUrl[u])
  /\ UNCHANGED <<contacts, groups, open, people, spaces, pickedSpaces, exclusive,
                 selectable, requests>>

TapSpace(g) ==
  /\ open /\ selectable /\ g \in spaces
  /\ pickedSpaces' = IF g \in pickedSpaces THEN pickedSpaces \ {g} ELSE pickedSpaces \cup {g}
  /\ UNCHANGED <<contacts, groups, open, people, picked, spaces, marks, requests>>

SelectBeside(c) ==   \* mutant: the other cell is left as it is
  /\ open /\ c \notin exclusive
  /\ exclusive' = exclusive \cup {c} /\ selectable' = FALSE
  /\ picked' = {} /\ pickedSpaces' = {} /\ RemoveAllReceiver
  /\ UNCHANGED <<contacts, groups, open, people, spaces, requests>>

\* The cell's observer unselects everything else, the other cell included,
\* and switches off the selection in both lists.
SelectCell(c) ==
  /\ open /\ c \notin exclusive
  /\ exclusive' = {c} /\ selectable' = FALSE
  /\ picked' = {} /\ pickedSpaces' = {} /\ RemoveAllReceiver
  /\ UNCHANGED <<contacts, groups, open, people, spaces, requests>>

\* The observer of both cells switches it on again if neither is selected.
UnselectCell(c) ==
  /\ open /\ c \in exclusive
  /\ exclusive' = exclusive \ {c}
  /\ selectable' = (selectable \/ exclusive' = {})
  /\ UNCHANGED <<contacts, groups, open, lists, bar, crowded, requests>>

(***************************************************************************)
(* Leaving and sending.  The screen's callbacks hold it weakly: with the   *)
(* screen gone its answers change nothing, while the service's remain.     *)
(***************************************************************************)
Close ==
  /\ open' = FALSE
  /\ people' = {} /\ picked' = {} /\ spaces' = {} /\ pickedSpaces' = {}
  /\ exclusive' = {} /\ selectable' = TRUE /\ RemoveAllReceiver
  /\ asking' = {}
  /\ request' = [l \in Loads |-> "none"] /\ answer' = [l \in Loads |-> {}]
  /\ UNCHANGED <<contacts, groups, saving>>

Back == open /\ Close

\* The handler takes "all friends" first, then "my memories", then the selected
\* rows.  With nothing selected it only shows a tip; if the picture cannot be
\* saved the screen stays as it is.
Send ==
  /\ open /\ (exclusive # {} \/ picked # {} \/ pickedSpaces # {})
  /\ Close

Next ==
  \/ Open \/ Refresh \/ Back \/ Send
  \/ \E l \in Loads :
        \/ \E table \in Tables : SaveContacts(l, table)
        \/ ContactsLoaded(l) \/ ContactsFail(l)
        \/ AnswerSpaces(l) \/ SpacesLoaded(l) \/ SpacesFail(l)
        \/ CreateGroup(l) \/ GroupFails(l)
        \/ \E g \in Groups : GroupCreated(l, g)
  \/ \E u \in Users : TapPerson(u)
  \/ \E g \in Groups : TapSpace(g) \/ GroupAppears(g)
  \/ \E c \in Cells : SelectCell(c) \/ UnselectCell(c)

Spec == Init /\ [][Next]_vars

------------------------------------------------------------------------------
(* Types: what is selected is in the list, so that sending, which looks for  *)
(* the selected items in listData, never names a contact no longer shown.    *)
TypeOK ==
  /\ contacts \in SUBSET Users /\ groups \in SUBSET Groups
  /\ open \in BOOLEAN /\ selectable \in BOOLEAN /\ crowded \in BOOLEAN
  /\ people \in SUBSET (Users \ {Me}) /\ picked \in SUBSET people
  /\ spaces \in SUBSET Groups /\ pickedSpaces \in SUBSET spaces
  /\ exclusive \in SUBSET Cells
  /\ bar \in [Urls -> Nat]
  /\ saving \in SUBSET Loads /\ asking \in SUBSET Loads
  /\ request \in [Loads -> {"none", "creating", "sent", "answered"}]
  /\ answer \in [Loads -> SUBSET Groups]

(* A picture for all friends or for one's memories goes to nobody else, and  *)
(* the screen never shows otherwise: with one of the two cells selected the  *)
(* other is not, no row is and none can be, whatever load ends meanwhile;    *)
(* with neither, rows can be selected again.  The handler of the send reads  *)
(* the cells first and drops the rows, so a row still ticked then would be a *)
(* receiver the user chose and who never gets the picture.                   *)
ExclusiveAlone ==
  /\ Cardinality(exclusive) <= 1
  /\ selectable <=> exclusive = {}
  /\ exclusive # {} => picked = {} /\ pickedSpaces = {} /\ bar = NoAvatars

(* Nobody gets the picture unseen: the bar shows an avatar for every person  *)
(* selected, also when several have the same URL, as long as it had a place  *)
(* for each.  (A load leaves avatars of people no longer selected in it.)    *)
AudienceIsShown ==
  crowded \/ \A url \in Urls :
    Cardinality({u \in picked : AvatarUrl[u] = url}) <= bar[url]
==============================================================================
