------------------------------- MODULE MCBrowser -------------------------------
(***************************************************************************)
(* What a page holds besides its terminals' connections: the layout, the   *)
(* list with its sign-ins, the command blocks of a terminal, the file      *)
(* panel, the dialogs of the administrators, and the shortcuts.  They      *)
(* share no variable, so a behaviour takes the steps of one `part`.        *)
(***************************************************************************)
EXTENDS Workspace, SessionList, CommandBlocks, FilePanel, AccountAdmin, Configuration,
  Shortcuts

VARIABLE part

CONSTANT s1
MCSessions == {s1}
MCExisting == {}
MCSavedLayouts ==
  {[tabs |-> <<Tab(1, Join(Alone(Leaf(2, NoSession)), Alone(Leaf(3, NoSession))), 4)>>,
    activeTabId |-> 5],
   [tabs |-> <<Tab(1, Join(Alone(Leaf(2, NoSession)), Alone(Leaf(2, NoSession))), 2)>>,
    activeTabId |-> 1]}
MCChosen == <<"f", "g">>
MCOnDisk == {File("d", "f"), File("e", "g")}
MCVisible == [a \in Accounts |-> IF a \in Admins THEN Shells ELSE {"t"}]

vars == <<workspaceVars, sessionVars, rangeVars, fileVars, adminVars, configVars,
          shortcutVars, part>>

Init ==
  /\ part \in {"workspace", "list", "blocks", "files", "admin", "config", "shortcuts"}
  /\ WorkspaceInit /\ SessionListInit /\ BlocksInit /\ FileInit /\ AccountInit /\ ConfigInit
  /\ ShortcutsInit
  /\ part # "list" => cookie = Nobody
  /\ part # "blocks" => ~runs
  /\ part # "shortcuts" => modal /\ ~mac /\ ~visitor

WorkspaceSteps ==
  /\ part = "workspace" /\ WorkspaceNext
  /\ UNCHANGED <<sessionVars, rangeVars, fileVars, adminVars, configVars, shortcutVars,
                 part>>
ListSteps ==
  /\ part = "list" /\ SessionListNext
  /\ UNCHANGED <<workspaceVars, rangeVars, fileVars, adminVars, configVars, shortcutVars,
                 part>>
BlocksSteps ==
  /\ part = "blocks" /\ BlocksNext
  /\ UNCHANGED <<workspaceVars, sessionVars, fileVars, adminVars, configVars,
                 shortcutVars, part>>
FileSteps ==
  /\ part = "files" /\ FileNext
  /\ UNCHANGED <<workspaceVars, sessionVars, rangeVars, adminVars, configVars,
                 shortcutVars, part>>
AdminSteps ==
  /\ part = "admin" /\ AccountNext
  /\ UNCHANGED <<workspaceVars, sessionVars, rangeVars, fileVars, configVars,
                 shortcutVars, part>>
ConfigSteps ==
  /\ part = "config" /\ ConfigNext
  /\ UNCHANGED <<workspaceVars, sessionVars, rangeVars, fileVars, adminVars,
                 shortcutVars, part>>
ShortcutSteps ==
  /\ part = "shortcuts" /\ ShortcutsNext
  /\ UNCHANGED <<workspaceVars, sessionVars, rangeVars, fileVars, adminVars, configVars,
                 part>>

Next == WorkspaceSteps \/ ListSteps \/ BlocksSteps \/ FileSteps \/ AdminSteps \/ ConfigSteps
        \/ ShortcutSteps
Spec == Init /\ [][Next]_vars

\* Every part keeps the types of its variables.
BrowserTypeOK ==
  /\ WorkspaceTypeOK /\ SessionListTypeOK /\ BlocksTypeOK /\ FileTypeOK /\ AccountTypeOK
  /\ ConfigTypeOK /\ ShortcutsTypeOK

\* States that differ only in which uid a tab or pane has are one state.
Place(id) ==
  IF id \in PaneIds THEN LET i == tabForPane(id) IN <<i, PathOf(tabs[i].root, id)>>
  ELSE IF id = NoId THEN <<0>> ELSE <<1>>
WorkspaceView ==
  <<[i \in DOMAIN tabs |->
       <<[p \in DOMAIN tabs[i].root |-> tabs[i].root[p].session], Place(tabs[i].focus),
         tabs[i].id = activeTabId>>],
    Place(maximizedPaneId), hydrated, stored = snapshot, login, logins, alive,
    {<<r.stage, r.how, r.session, Place(r.at)>> : r \in requests},
    autoBound, older, askedBy, opened>>
\* So are states that differ only in when the requests began.
AdminView ==
  <<accounts, pendingTotp, userRows, loadingUsers, totpSetup, scanned, secretsMade,
    adminTurns,
    {[c EXCEPT !.turn = Cardinality({d \in adminCalls : d.turn < c.turn})] :
       c \in adminCalls}>>
\* And those of the file panel that differ in what nothing reads any more: what a
\* closed editor held, which of the two drafts is which, the listing once nothing can
\* be begun or asked about it, and the answers to questions about earlier files.
Draft(text) ==
  IF editor # Closed /\ doc = MaxVersion + 2 /\ text \in Drafts
  THEN IF text = doc THEN MaxVersion + 1 ELSE doc
  ELSE text
PathIsRead == readings # {} \/ \E q \in Range(dialogs) : q.what \in {"remove", "rename"}
ListingView ==
  IF panel # "shown" THEN <<>>
  ELSE IF clicks < MaxClicks THEN <<path, entries, loads, readings>>
  ELSE IF PathIsRead THEN <<path, loads, readings>> ELSE <<>>
AgreedView == {a \in agreed : uploads[a[1]].index = a[2] /\ uploads[a[1]].stage # "over"}
FileView ==
  <<disk, versions, ListingView, editor, dirty,
    {[s EXCEPT !.text = Draft(@)] : s \in saves}, dialogs, uploads, AgreedView,
    clicks, panel, OverwriteAgreed, IF editor = Closed THEN 0 ELSE Draft(doc)>>
\* And those of the list that differ in how often it was reset before, in what a list
\* asked for before the last reset will say, or in whose credential fetched a list
\* that is empty or of which nothing is promised.
RefreshView(r) ==
  IF r.epoch = generation THEN [r EXCEPT !.epoch = TRUE]
  ELSE IF r.answer = Waiting THEN <<r.by>> ELSE <<r.answer = Denied>>
ListView ==
  <<authVars, served, live, refreshTimer, stream, online, calls, signingOut, turns,
    IF abandoned \/ live = {} THEN Nobody ELSE listedFor, lapsed,
    [i \in DOMAIN refreshes |-> RefreshView(refreshes[i])]>>
\* A part whose steps are not taken stays as it began.
BrowserView ==
  <<part, IF part = "workspace" THEN WorkspaceView ELSE workspaceVars,
    IF part = "list" THEN ListView ELSE sessionVars,
    IF part = "files" THEN FileView ELSE fileVars,
    IF part = "admin" THEN AdminView ELSE adminVars,
    rangeVars, configVars, shortcutVars>>

\* Bound: panes on the page.
FewPanes == Cardinality(allLeaves) <= 3
=============================================================================
