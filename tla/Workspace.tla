------------------------------- MODULE Workspace -------------------------------
(***************************************************************************)
(* The tabs and split panes of the page: stores/workspace.ts and the       *)
(* callers that bind sessions to panes (WorkspaceView.vue, TabBar.vue,     *)
(* SplitPane.vue, CommandPalette.vue, SessionSidebar.vue and the pane's    *)
(* own buttons in TerminalPane.vue).                                       *)
(*                                                                         *)
(* The tree of a tab is a function from the paths of its leaves to the     *)
(* leaves: a path says at each split whether to go to child a or child b.  *)
(* The directions and ratios of the splits, titles, names, permissions and *)
(* the tokens of shared sessions are left out.                             *)
(* A handler up to its next await is one action; the deep watcher that     *)
(* saves the layout runs before anything else can, so it is part of it.    *)
(***************************************************************************)
EXTENDS Naturals, Sequences, SequencesExt

CONSTANTS
  MaxTabs,      \* MAX_TABS
  MaxLeaves,    \* MAX_LEAVES
  MaxDepth,     \* MAX_SPLIT_DEPTH
  Sessions,     \* sessions the server can have
  Existing,     \* those that exist when the page is opened
  BrowserAhead, \* the browser's clock may be ahead of the server's
  BrowserBehind, \* ... or behind it
  SavedLayouts, \* what PUT /layouts may hold, well formed or not
  MaxUid,       \* bound: uids in use at once
  MaxLogins     \* bound: sign-ins, each by another user

ASSUME WorkspaceBounds ==
  /\ MaxTabs \in Nat \ {0} /\ MaxLeaves \in Nat \ {0} /\ MaxDepth \in Nat
  /\ MaxUid \in Nat \ {0} /\ MaxLogins \in Nat
  /\ Existing \subseteq Sessions /\ BrowserAhead \in BOOLEAN /\ BrowserBehind \in BOOLEAN

VARIABLES
  tabs,         \* tabs: their uid, tree and focused pane
  activeTabId,
  maximizedPaneId,
  hydrated,
  stored,       \* the layout in localStorage
  login,        \* which sign-in this is; 0: nobody
  logins,       \* sign-ins so far
  alive,        \* sessions the server runs
  requests,     \* POST /sessions on their way, and the DELETEs that undo them
  autoBound,    \* autoBoundInitialSession
  older,        \* sessions created before this page was mounted
  \* History, read by the properties only:
  askedBy,      \* the sign-in that asked for a session; 0: it was there
  opened,       \* new sessions a user picked from a list, or duplicated
  page          \* changes with each load of the page

workspaceVars == <<tabs, activeTabId, maximizedPaneId, hydrated, stored, login,
                   logins, alive, requests, autoBound, older, askedBy, opened, page>>

Uids == 1 .. MaxUid
NoId == 0
NoSession == "none"
ASSUME NoSessionIsNone == NoSession \notin Sessions
Paths == Seq({"a", "b"})

Leaf(id, session) == [id |-> id, session |-> session]
Leaves == [id : Uids, session : Sessions \cup {NoSession}]

\* A request carries the surface it was made for: a new tab, a split or a
\* rebinding of pane `at`.  "undo" is the DELETE of a session with no surface.
Surfaces == {"tab", "split", "paneSplit", "here"}
Requests == [stage : {"made", "undo"}, how : Surfaces,
             at : Uids \cup {NoId}, session : Sessions]

-----------------------------------------------------------------------------
(* Trees of panes.                                                         *)

LeafIds(root) == {root[p].id : p \in DOMAIN root}
PathOf(root, id) == CHOOSE p \in DOMAIN root : root[p].id = id
LeafOf(root, id) == root[PathOf(root, id)]
firstLeaf(root) ==
  root[CHOOSE p \in DOMAIN root : \A i \in DOMAIN p : p[i] = "a"]

\* Two paths part at the first split where one goes to child a and one to b.
PartAt(p, q, i) ==
  i \in DOMAIN p \cap DOMAIN q /\ (\A j \in 1 .. i - 1 : p[j] = q[j]) /\ p[i] # q[i]
LeftOf(p, q) == \E i \in DOMAIN p \cap DOMAIN q : PartAt(p, q, i) /\ p[i] = "a"

\* The paths of a tree: any two part, and both children of a split have leaves.
IsTree(root) ==
  /\ DOMAIN root \subseteq Paths /\ IsFiniteSet(DOMAIN root) /\ DOMAIN root # {}
  /\ \A p, q \in DOMAIN root : p # q => \E i \in DOMAIN p : PartAt(p, q, i)
  /\ \A p \in DOMAIN root : \A i \in DOMAIN p : \E q \in DOMAIN root : PartAt(p, q, i)

leavesOf(root) ==
  [i \in 1 .. Cardinality(DOMAIN root) |->
     root[CHOOSE p \in DOMAIN root : Cardinality({q \in DOMAIN root : LeftOf(q, p)}) = i - 1]]

Alone(leaf) == [p \in {<<>>} |-> leaf]
Join(left, right) ==
  [p \in {<<"a">> \o q : q \in DOMAIN left} \cup {<<"b">> \o q : q \in DOMAIN right} |->
     IF p[1] = "a" THEN left[Tail(p)] ELSE right[Tail(p)]]

\* replaceNode of a leaf by a split of it and a new one.
SplitAt(root, p, leaf) ==
  [q \in (DOMAIN root \ {p}) \cup {Append(p, "a"), Append(p, "b")} |->
     IF q = Append(p, "a") THEN root[p]
     ELSE IF q = Append(p, "b") THEN leaf ELSE root[q]]

\* removeLeaf: the sibling of the leaf takes the place of their split.
Sibling(p) == Append(Front(p), IF Last(p) = "a" THEN "b" ELSE "a")
Lifted(p, q) ==
  IF IsPrefix(Sibling(p), q) THEN Front(p) \o SubSeq(q, Len(p) + 1, Len(q)) ELSE q
removeLeaf(root, p) ==
  [q \in {Lifted(p, r) : r \in DOMAIN root \ {p}} |->
     root[CHOOSE r \in DOMAIN root \ {p} : Lifted(p, r) = q]]

-----------------------------------------------------------------------------
(* Tabs, uids and what is saved.                                           *)

Tab(id, root, focus) == [id |-> id, root |-> root, focus |-> focus]
TabIds == {tabs[i].id : i \in DOMAIN tabs}
allLeaves == UNION {{tabs[i].root[p] : p \in DOMAIN tabs[i].root} : i \in DOMAIN tabs}
PaneIds == {leaf.id : leaf \in allLeaves}
IndexOfTab(id) == CHOOSE i \in DOMAIN tabs : tabs[i].id = id
tabForPane(id) == CHOOSE i \in DOMAIN tabs : id \in LeafIds(tabs[i].root)
ActiveIndex == IF activeTabId \in TabIds THEN IndexOfTab(activeTabId) ELSE 1
activeTab == tabs[ActiveIndex]
activeLeaf == LeafOf(activeTab.root, activeTab.focus)

\* uid(): a value nothing refers to.
UidsInUse == TabIds \cup PaneIds \cup {maximizedPaneId} \cup {r.at : r \in requests}
Fresh == Uids \ UidsInUse
HasFresh(n) == Cardinality(Fresh) >= n
Uid(n) == CHOOSE u \in Fresh : Cardinality({v \in Fresh : v < u}) = n - 1

\* A saved layout is JSON, so its tabs are trees of splits, and it was saved when
\* there were no sessions but those of Existing.
ASSUME SavedLayoutsAreTrees ==
  \A layout \in SavedLayouts :
    /\ layout = [tabs |-> layout.tabs, activeTabId |-> layout.activeTabId]
    /\ layout.tabs = [i \in 1 .. Len(layout.tabs) |-> layout.tabs[i]]
    /\ \A i \in 1 .. Len(layout.tabs) :
         LET tab == layout.tabs[i]
         IN /\ tab = Tab(tab.id, tab.root, tab.focus) /\ tab.id \in Uids
            /\ IsTree(tab.root) /\ tab.root = [p \in DOMAIN tab.root |-> tab.root[p]]
            /\ \A p \in DOMAIN tab.root :
                 tab.root[p] \in [id : Uids, session : Existing \cup {NoSession}]

NoLayout == [tabs |-> <<>>, activeTabId |-> NoId]
snapshot == [tabs |-> tabs, activeTabId |-> activeTabId]
persist == stored' = IF hydrated' THEN snapshot' ELSE stored

\* sanitizeLayout: the layout with its focus and active tab made valid, or
\* NoLayout when a tree is too deep or too wide or an id occurs twice.
SameId(layout) ==
  \E i, j \in DOMAIN layout.tabs :
    \/ i # j /\ layout.tabs[i].id = layout.tabs[j].id
    \/ layout.tabs[i].id \in LeafIds(layout.tabs[j].root)
    \/ \E p \in DOMAIN layout.tabs[i].root, q \in DOMAIN layout.tabs[j].root :
         /\ <<i, p>> # <<j, q>>
         /\ layout.tabs[i].root[p].id = layout.tabs[j].root[q].id
\* A pane at the depth limit is refused.
AcceptableShallow(layout) ==
  /\ Len(layout.tabs) \in 1 .. MaxTabs
  /\ ~SameId(layout)
  /\ \A i \in DOMAIN layout.tabs :
       /\ Cardinality(DOMAIN layout.tabs[i].root) <= MaxLeaves
       /\ \A p \in DOMAIN layout.tabs[i].root : Len(p) < MaxDepth

Acceptable(layout) ==
  /\ Len(layout.tabs) \in 1 .. MaxTabs
  /\ ~SameId(layout)
  /\ \A i \in DOMAIN layout.tabs :
       /\ Cardinality(DOMAIN layout.tabs[i].root) <= MaxLeaves
       /\ \A p \in DOMAIN layout.tabs[i].root : Len(p) <= MaxDepth
sanitizeLayout(layout) ==
  IF ~Acceptable(layout) THEN NoLayout
  ELSE [tabs |-> [i \in DOMAIN layout.tabs |->
                    LET root == layout.tabs[i].root
                    IN [layout.tabs[i] EXCEPT
                          !.focus = IF @ \in LeafIds(root) THEN @ ELSE firstLeaf(root).id]],
        activeTabId |-> IF \E i \in DOMAIN layout.tabs : layout.tabs[i].id = layout.activeTabId
                        THEN layout.activeTabId ELSE layout.tabs[1].id]

-----------------------------------------------------------------------------
(* The operations of the store.                                            *)

SetTab(i, root, focus) == tabs' = [tabs EXCEPT ![i].root = root, ![i].focus = focus]
SetLeaf(id, session) ==
  LET i == tabForPane(id)
  IN tabs' = [tabs EXCEPT ![i].root[PathOf(tabs[i].root, id)] = Leaf(id, session)]

NewTab(session) == Tab(Uid(1), Alone(Leaf(Uid(2), session)), Uid(2))

\* createTab, when there is room; it leaves the maximized pane alone.
createTab(session) ==
  /\ HasFresh(2)
  /\ tabs' = Append(tabs, NewTab(session))
  /\ activeTabId' = Uid(1)
  /\ UNCHANGED maximizedPaneId

\* closeTab: the tab behind takes over, or the last one; a page has one tab.
closeTab(i) ==
  LET rest == RemoveAt(tabs, i)
  IN IF rest = <<>>
     THEN /\ HasFresh(2)
          /\ tabs' = <<NewTab(NoSession)>>
          /\ activeTabId' = Uid(1)
     ELSE /\ tabs' = rest
          /\ activeTabId' = IF activeTabId # tabs[i].id THEN activeTabId
                            ELSE rest[IF i <= Len(rest) THEN i ELSE Len(rest)].id

\* The focus of a tab whose focused pane is closed is left where it was.
closePaneKeepsFocus(id) ==
  LET i == tabForPane(id)
      next == removeLeaf(tabs[i].root, PathOf(tabs[i].root, id))
  IN IF Cardinality(DOMAIN tabs[i].root) = 1
     THEN closeTab(i) /\ UNCHANGED maximizedPaneId
     ELSE /\ SetTab(i, next, tabs[i].focus)
          /\ maximizedPaneId' = IF maximizedPaneId = id THEN NoId ELSE maximizedPaneId
          /\ UNCHANGED activeTabId

\* The one leaf of a tab goes with its tab, which does not end maximizing.
closePane(id) ==
  LET i == tabForPane(id)
      next == removeLeaf(tabs[i].root, PathOf(tabs[i].root, id))
  IN IF Cardinality(DOMAIN tabs[i].root) = 1
     THEN closeTab(i) /\ UNCHANGED maximizedPaneId
     ELSE /\ SetTab(i, next, firstLeaf(next).id)
          /\ maximizedPaneId' = IF maximizedPaneId = id THEN NoId ELSE maximizedPaneId
          /\ UNCHANGED activeTabId

CanSplit(id) ==
  /\ id \in PaneIds
  /\ Cardinality(DOMAIN tabs[tabForPane(id)].root) < MaxLeaves
splitPane(id, session) ==
  LET i == tabForPane(id)
  IN /\ HasFresh(1)
     /\ SetTab(i, SplitAt(tabs[i].root, PathOf(tabs[i].root, id), Leaf(Uid(1), session)),
               Uid(1))
     /\ maximizedPaneId' = NoId
     /\ UNCHANGED activeTabId

\* The pane is copied under a new id to the right of the target tab's tree.
movePaneToTab(id, t) ==
  LET s == tabForPane(id)
      copy == [LeafOf(tabs[s].root, id) EXCEPT !.id = Uid(1)]
      moved == [tabs EXCEPT ![t].root = Join(@, Alone(copy)), ![t].focus = Uid(1)]
      next == removeLeaf(tabs[s].root, PathOf(tabs[s].root, id))
  IN /\ HasFresh(1)
     /\ IF Cardinality(DOMAIN tabs[s].root) = 1
        THEN /\ tabs' = RemoveAt(moved, s)
             /\ activeTabId' =
                  IF activeTabId # tabs[s].id THEN activeTabId
                  ELSE tabs'[IF s <= Len(tabs') THEN s ELSE Len(tabs')].id
             /\ UNCHANGED maximizedPaneId
        ELSE /\ tabs' = [moved EXCEPT ![s].root = next, ![s].focus = firstLeaf(next).id]
             /\ maximizedPaneId' = IF maximizedPaneId = id THEN NoId ELSE maximizedPaneId
             /\ UNCHANGED activeTabId

focusPane(id) ==
  LET i == tabForPane(id)
  IN /\ tabs' = [tabs EXCEPT ![i].focus = id]
     /\ activeTabId' = tabs[i].id
     /\ maximizedPaneId' = IF activeTabId # tabs[i].id THEN NoId ELSE maximizedPaneId

\* applyPreset: the first leaves in order, blank ones where there are too few.
PresetPaths ==
  [single |-> <<<<>>>>,
   columns |-> <<<<"a">>, <<"b", "a">>, <<"b", "b">>>>,
   rows |-> <<<<"a">>, <<"b", "a">>, <<"b", "b">>>>,
   grid |-> <<<<"a", "a">>, <<"a", "b">>, <<"b", "a">>, <<"b", "b">>>>]
PresetRoot(preset, root) ==
  LET kept == leavesOf(root)
      paths == PresetPaths[preset]
  IN [p \in Range(paths) |->
        LET n == CHOOSE k \in DOMAIN paths : paths[k] = p
        IN IF n <= Len(kept) THEN kept[n]
           ELSE Leaf(Uid(n - Len(kept)), NoSession)]

-----------------------------------------------------------------------------
(* What the user does.  A page offers these only to a user who is signed   *)
(* in; a throw of the store becomes a notice and changes nothing.          *)

accountVars == <<hydrated, login, logins, alive, requests, autoBound, older,
                 askedBy, page>>
SignedIn == login # 0
Saved == UNCHANGED accountVars /\ persist

\* The panes on the screen: the maximized one, or the active tab's.  A split
\* is hidden while a pane that is gone is still maximized.
Shown ==
  IF maximizedPaneId \in PaneIds THEN {maximizedPaneId}
  ELSE IF maximizedPaneId # NoId /\ Cardinality(DOMAIN activeTab.root) > 1 THEN {}
  ELSE LeafIds(activeTab.root)

\* The sessions GET /sessions shows this user.
Listed == {s \in alive : askedBy[s] \in {0, login}}
Bound(s) == \E leaf \in allLeaves : leaf.session = s
FirstPaneId(s) ==
  LET i == CHOOSE n \in DOMAIN tabs :
             /\ \E p \in DOMAIN tabs[n].root : tabs[n].root[p].session = s
             /\ \A m \in 1 .. n - 1 :
                  \A p \in DOMAIN tabs[m].root : tabs[m].root[p].session # s
      leaves == leavesOf(tabs[i].root)
  IN leaves[SelectInSeq(leaves, LAMBDA leaf : leaf.session = s)].id

NewBlankTab ==
  /\ SignedIn /\ Len(tabs) < MaxTabs
  /\ createTab(NoSession)
  /\ UNCHANGED opened
  /\ Saved

CloseTab ==
  /\ SignedIn
  /\ \E i \in DOMAIN tabs : closeTab(i)
  /\ UNCHANGED <<maximizedPaneId, opened>>
  /\ Saved

ActivateTab ==
  /\ SignedIn
  /\ activeTabId' \in TabIds
  /\ maximizedPaneId' = NoId
  /\ UNCHANGED <<tabs, opened>>
  /\ Saved

FocusPane ==
  /\ SignedIn
  /\ \E id \in Shown \cup LeafIds(activeTab.root) : focusPane(id)
  /\ UNCHANGED opened
  /\ Saved

DuplicateTab ==
  /\ SignedIn /\ Len(tabs) < MaxTabs
  /\ \E i \in DOMAIN tabs :
       LET source == tabs[i]
           leaves == leavesOf(source.root)
           Nth(p) == CHOOSE n \in DOMAIN leaves : leaves[n] = source.root[p]
           root == [p \in DOMAIN source.root |->
                      [source.root[p] EXCEPT !.id = Uid(1 + Nth(p))]]
       IN /\ HasFresh(1 + Len(leaves))
          /\ tabs' = Append(tabs, Tab(Uid(1), root, firstLeaf(root).id))
          /\ opened' = opened \cup
               ({leaves[n].session : n \in DOMAIN leaves} \cap (Sessions \ Existing))
  /\ activeTabId' = Uid(1)
  /\ maximizedPaneId' = NoId
  /\ Saved

\* swapWithNext: the next leaf of the active tab, when both are in one tab.
SwapWithNext ==
  /\ SignedIn
  /\ \E id \in Shown \cap LeafIds(activeTab.root) :
       LET leaves == leavesOf(activeTab.root)
           n == CHOOSE k \in DOMAIN leaves : leaves[k].id = id
           other == leaves[(n % Len(leaves)) + 1]
           mine == PathOf(activeTab.root, id)
           its == PathOf(activeTab.root, other.id)
       IN /\ other.id # id
          /\ tabs' = [tabs EXCEPT ![ActiveIndex].root[mine].session = other.session,
                                  ![ActiveIndex].root[its].session = leaves[n].session]
  /\ UNCHANGED <<activeTabId, maximizedPaneId, opened>>
  /\ Saved

MovePaneToTab ==
  /\ SignedIn
  /\ \E id \in Shown, t \in DOMAIN tabs \ {ActiveIndex} :
       /\ t # tabForPane(id)
       /\ Cardinality(DOMAIN tabs[t].root) < MaxLeaves
       /\ movePaneToTab(id, t)
  /\ UNCHANGED opened
  /\ Saved

ClosePane ==
  /\ SignedIn
  /\ \E id \in Shown : closePane(id)
  /\ UNCHANGED opened
  /\ Saved

ToggleMaximize ==
  /\ SignedIn
  /\ \E id \in Shown \cup {activeTab.focus} :
       maximizedPaneId' = IF maximizedPaneId = id THEN NoId ELSE id
  /\ UNCHANGED <<tabs, activeTabId, opened>>
  /\ Saved

ApplyPreset ==
  /\ SignedIn
  /\ \E preset \in DOMAIN PresetPaths :
       LET root == PresetRoot(preset, activeTab.root)
       IN /\ Len(PresetPaths[preset]) <= MaxLeaves
          /\ HasFresh(Len(PresetPaths[preset]))
          /\ SetTab(ActiveIndex, root, firstLeaf(root).id)
  /\ UNCHANGED <<activeTabId, maximizedPaneId, opened>>
  /\ Saved

MoveTab ==
  /\ SignedIn
  /\ \E from, to \in DOMAIN tabs :
       /\ from # to
       /\ tabs' = InsertAt(RemoveAt(tabs, from), to, tabs[from])
  /\ UNCHANGED <<activeTabId, maximizedPaneId, opened>>
  /\ Saved

\* open() of the sidebar binds a blank focused pane first; the palette's
\* openSession does not.  Both go to a pane that shows the session already.
OpenSession ==
  /\ SignedIn
  /\ \E s \in Listed :
       /\ opened' = opened \cup ({s} \ Existing)
       /\ \/ /\ activeLeaf.session = NoSession
             /\ SetLeaf(activeTab.focus, s)
             /\ UNCHANGED <<activeTabId, maximizedPaneId>>
          \/ Bound(s) /\ focusPane(FirstPaneId(s))
          \/ ~Bound(s) /\ Len(tabs) < MaxTabs /\ createTab(s)
  /\ Saved

\* The session picker of a pane.
Choose ==
  /\ SignedIn
  /\ \E id \in Shown, s \in Listed :
       SetLeaf(id, s) /\ opened' = opened \cup ({s} \ Existing)
  /\ UNCHANGED <<activeTabId, maximizedPaneId>>
  /\ Saved

\* Settings: a layout the server kept; one that does not hold is refused.
ReplaceLayout ==
  /\ SignedIn
  /\ \E saved \in SavedLayouts :
       LET good == sanitizeLayout(saved)
       IN /\ good # NoLayout
          /\ tabs' = good.tabs
          /\ activeTabId' = good.activeTabId
  /\ maximizedPaneId' = NoId
  /\ UNCHANGED opened
  /\ Saved

-----------------------------------------------------------------------------
(* Sessions made on the server, and the surface that waits for each.       *)

layoutVars == <<tabs, activeTabId, maximizedPaneId, hydrated, stored>>
pageVars == <<login, logins, autoBound, older, opened, page>>

\* newSession, splitFocused, the palette's and the sidebar's createSession and
\* split, the pane's split and createHere: POST /sessions.  The page cannot tell
\* when the server starts the session, and does nothing more if it refuses.
Request ==
  /\ SignedIn
  /\ \E s \in Sessions \ Existing, how \in Surfaces :
     \E at \in CASE how = "tab" -> {NoId}
                 [] how = "split" -> {activeTab.focus}
                 [] OTHER -> Shown :
       /\ askedBy[s] = 0
       /\ askedBy' = [askedBy EXCEPT ![s] = login]
       /\ requests' = requests \cup
            {[stage |-> "made", how |-> how, at |-> at, session |-> s]}
       /\ alive' = alive \cup {s}
  /\ UNCHANGED <<layoutVars, pageVars>>

\* The answer is here and the list has been refreshed.  A surface that is gone
\* or full undoes the session; the pane's own buttons do not look.
HasRoom(r) == IF r.how = "tab" THEN Len(tabs) < MaxTabs
              ELSE IF r.how = "here" THEN r.at \in PaneIds ELSE CanSplit(r.at)
Surface(r) ==
  CASE r.how = "tab" -> createTab(r.session)
    [] r.how = "here" -> SetLeaf(r.at, r.session) /\ UNCHANGED <<activeTabId,
                                                                 maximizedPaneId>>
    [] OTHER -> splitPane(r.at, r.session)
\* A session whose surface is gone is forgotten.
NoRoomForgets(r) ==
  /\ requests' = requests \ {r}
  /\ UNCHANGED <<tabs, activeTabId, maximizedPaneId>>

NoRoom(r) ==
  /\ requests' = (requests \ {r}) \cup
       (IF r.how \in {"tab", "split"} THEN {[r EXCEPT !.stage = "undo"]} ELSE {})
  /\ UNCHANGED <<tabs, activeTabId, maximizedPaneId>>
SessionArrives ==
  /\ \E r \in requests :
       /\ r.stage = "made"
       /\ \/ HasRoom(r) /\ Surface(r) /\ requests' = requests \ {r}
          \/ ~HasRoom(r) /\ NoRoom(r)
  /\ UNCHANGED <<pageVars, hydrated, alive, askedBy>>
  /\ persist

\* The DELETE that undoes it is answered; a failure is swallowed.
Undone ==
  /\ \E r \in requests :
       /\ r.stage = "undo"
       /\ requests' = requests \ {r}
       /\ alive' \in {alive, alive \ {r.session}}
  /\ UNCHANGED <<layoutVars, pageVars, askedBy>>

-----------------------------------------------------------------------------
(* Signing in and out, and reloading the page.                             *)

\* hydrate: the saved layout when it is valid, else what is there, else one
\* blank tab.
hydrate(saved, open) ==
  LET good == sanitizeLayout(saved)
  IN /\ hydrated' = TRUE
     /\ IF good # NoLayout
        THEN tabs' = good.tabs /\ activeTabId' = good.activeTabId
        ELSE IF open = <<>>
        THEN HasFresh(2) /\ tabs' = <<NewTab(NoSession)>> /\ activeTabId' = Uid(1)
        ELSE tabs' = open /\ activeTabId' = activeTab.id

SignIn ==
  /\ ~SignedIn /\ logins < MaxLogins
  /\ logins' = logins + 1 /\ login' = logins'
  /\ hydrate(stored, tabs)
  /\ persist
  /\ autoBound' = FALSE
  /\ older' = {s \in alive : askedBy[s] = 0}
  /\ UNCHANGED <<maximizedPaneId, alive, requests, askedBy, opened, page>>

\* Sign-out, a 401 or a 4401: App.vue's watcher calls reset().
SignOut ==
  /\ SignedIn
  /\ login' = 0
  /\ tabs' = <<>> /\ activeTabId' = NoId /\ maximizedPaneId' = NoId
  /\ hydrated' = FALSE /\ stored' = NoLayout
  /\ UNCHANGED <<logins, alive, requests, autoBound, older, askedBy, opened, page>>

\* The cookie signs the user in again; what the old page waited for is lost.
Reload ==
  /\ SignedIn
  /\ page' = 1 - page
  /\ requests' = {} /\ maximizedPaneId' = NoId
  /\ hydrate(stored, <<>>)
  /\ persist
  /\ autoBound' = FALSE
  /\ older' = Listed
  /\ UNCHANGED <<login, logins, alive, askedBy, opened>>

\* The blank page takes any session of the first list.
AutoBindAny ==
  /\ SignedIn /\ ~autoBound
  /\ autoBound' = TRUE
  /\ IF Listed # {} /\ \A leaf \in allLeaves : leaf.session = NoSession
     THEN \E s \in Listed : SetLeaf(firstLeaf(tabs[1].root).id, s)
     ELSE UNCHANGED tabs
  /\ UNCHANGED <<activeTabId, maximizedPaneId, hydrated, login, logins, alive, requests,
                 older, askedBy, opened, page>>
  /\ persist

\* Sessions with created_at <= mountedAt, the server's clock against the
\* browser's: those older than the page, if the two agree.
Predating == IF BrowserAhead THEN Listed ELSE older \cap alive

\* The first list has loaded: a blank page shows the first session that
\* predates it.
AutoBind ==
  /\ SignedIn /\ ~autoBound
  /\ autoBound' = TRUE
  /\ LET blank == \A leaf \in allLeaves : leaf.session = NoSession
     IN \/ blank /\ \E s \in Predating : SetLeaf(firstLeaf(tabs[1].root).id, s)
        \/ /\ ~blank \/ older \cap alive = {} \/ BrowserBehind
           /\ UNCHANGED tabs
  /\ UNCHANGED <<activeTabId, maximizedPaneId, hydrated, login, logins, alive, requests,
                 older, askedBy, opened, page>>
  /\ persist

WorkspaceInit ==
  /\ tabs = <<>> /\ activeTabId = NoId /\ maximizedPaneId = NoId
  /\ hydrated = FALSE /\ stored = NoLayout
  /\ login = 0 /\ logins = 0 /\ page = 0
  /\ alive = Existing /\ requests = {}
  /\ autoBound = FALSE /\ older = {}
  /\ askedBy = [s \in Sessions |-> 0] /\ opened = {}

WorkspaceNext ==
  \/ NewBlankTab \/ CloseTab \/ ActivateTab \/ FocusPane \/ DuplicateTab \/ SwapWithNext
  \/ MovePaneToTab \/ ClosePane \/ ToggleMaximize \/ ApplyPreset \/ MoveTab \/ OpenSession
  \/ Choose \/ ReplaceLayout \/ Request \/ SessionArrives \/ Undone
  \/ SignIn \/ SignOut \/ Reload \/ AutoBind

WorkspaceSpec == WorkspaceInit /\ [][WorkspaceNext]_workspaceVars

-----------------------------------------------------------------------------
(* Properties.                                                             *)

\* The variables have their types.
WorkspaceTypeOK ==
  /\ \A i \in DOMAIN tabs :
       /\ tabs[i].id \in Uids /\ tabs[i].focus \in Uids
       /\ \A p \in DOMAIN tabs[i].root : p \in Paths /\ tabs[i].root[p] \in Leaves
  /\ activeTabId \in Uids \cup {NoId} /\ maximizedPaneId \in Uids \cup {NoId}
  /\ hydrated \in BOOLEAN /\ autoBound \in BOOLEAN
  /\ login \in 0 .. MaxLogins /\ logins \in 0 .. MaxLogins /\ page \in {0, 1}
  /\ alive \subseteq Sessions /\ older \subseteq Sessions
  /\ requests \subseteq Requests
  /\ askedBy \in [Sessions -> 0 .. MaxLogins]

\* However panes are split, closed, moved, duplicated and restored, and however
\* late a new session arrives: every uid is used once, the focus of a tab is
\* one of its panes, the panes fill the tab, a page that is signed in has an active tab,
\* and neither limit is passed.
PanesConsistent ==
  /\ ~SameId(snapshot)
  /\ \A i \in DOMAIN tabs :
       /\ tabs[i].focus \in LeafIds(tabs[i].root)
       /\ Cardinality(DOMAIN tabs[i].root) <= MaxLeaves
       /\ IsTree(tabs[i].root)
  /\ Len(tabs) <= MaxTabs
  /\ hydrated => activeTabId \in TabIds

\* A session started from the toolbar, a shortcut, the palette or the sidebar
\* comes up in a pane, or the page asks for its end: no step of the page lets
\* go of one that nobody can see (WorkspaceView.vue:39-41).  One started with a
\* pane's own buttons (TerminalPane.vue:642-661) that finds no room is left to
\* the list.
CreatedHasSurface ==
  [][\A r \in requests :
       r.stage = "made" /\ r.how \in {"tab", "split"} /\ page' = page =>
         \/ r \in requests'
         \/ [r EXCEPT !.stage = "undo"] \in requests'
         \/ \E i \in DOMAIN tabs' : \E p \in DOMAIN tabs'[i].root :
              tabs'[i].root[p].session = r.session]_workspaceVars

\* A session is shown twice only if the user asked for it: filling the blank
\* start tab never races the tab of a session just created
\* (WorkspaceView.vue:345-348).  That is told by the clocks, so the browser's
\* must not be ahead of the server's.
OpenedOnce ==
  ~BrowserAhead => \A s \in Sessions \ (Existing \cup opened) : \A k, l \in allLeaves :
    k.session = s /\ l.session = s => k = l

\* A reload gives the same tabs, panes and focus back (README.md:48), unless a
\* tree is deeper than sanitizeNode takes: splitPane and movePaneToTab look at
\* MAX_LEAVES only, and one tree that is refused takes all tabs with it.
TooDeep == \E i \in DOMAIN tabs : \E p \in DOMAIN tabs[i].root : Len(p) > MaxDepth
ReloadRestores ==
  [][page' # page /\ ~TooDeep => tabs' = tabs /\ activeTabId' = activeTabId]_workspaceVars

\* "The next account would see the previous one's workspace" is what reset() is
\* for (App.vue:116-118): no pane of a user who is signed in shows a session
\* that a user before asked for.
NothingOfAnotherUser ==
  SignedIn => \A leaf \in allLeaves :
    leaf.session # NoSession => askedBy[leaf.session] \in {0, login}

=============================================================================
