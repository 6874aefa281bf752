-------------------------------- MODULE Shortcuts --------------------------------
(***************************************************************************)
(* The shortcuts of the page: utils/keybindings.ts, the table of           *)
(* stores/prefs.ts and onKeydown of WorkspaceView.vue.                     *)
(*                                                                         *)
(* A key has a place on the keyboard and, with the modifiers held, gives a *)
(* character.  The keyboard here is the US one; on a Mac the Option key    *)
(* composes another character.  Letters are written in upper case, as      *)
(* normaliseKey leaves them, the comma by its name, and a binding is a key *)
(* and a set of modifiers, as matchesBinding splits its text.              *)
(***************************************************************************)
EXTENDS Naturals, Sequences, FiniteSets, Functions

VARIABLES
  mac,        \* the keyboard composes characters with Alt
  visitor,    \* the page shows a shared terminal only
  modal,      \* a dialog covers the page
  typing,     \* the focus is in a field, as in a terminal
  palette     \* the palettes asked for: one component shows either

shortcutVars == <<mac, visitor, modal, typing, palette>>

Nothing == "nothing"
Modifiers == {"ctrl", "alt", "shift", "meta"}
Letters == {"T", "W", "D", "L", "H", "C", "V", "F", "K", "P", "B"}
Symbols == {"=", "-", "comma", "0"}
NamedKeys == {"ArrowRight", "ArrowDown", "Enter"}
Places == Letters \cup Symbols \cup NamedKeys
SHIFTED ==
  [c \in {"+", "_", "<", ")"} |->
     CASE c = "+" -> "=" [] c = "_" -> "-" [] c = "<" -> "comma" [] c = ")" -> "0"]

\* DEFAULT_KEYBINDINGS, in the order of the table.
Bind(action, mods, key) == [action |-> action, mods |-> mods, key |-> key]
DEFAULT_KEYBINDINGS == <<
  Bind("tab.new", {"alt", "shift"}, "T"),
  Bind("tab.close", {"alt", "shift"}, "W"),
  Bind("tab.duplicate", {"alt", "shift"}, "D"),
  Bind("pane.splitRight", {"alt", "shift"}, "ArrowRight"),
  Bind("pane.splitDown", {"alt", "shift"}, "ArrowDown"),
  Bind("pane.maximize", {"alt"}, "Enter"),
  Bind("pane.focusNext", {"alt", "shift"}, "L"),
  Bind("pane.focusPrev", {"alt", "shift"}, "H"),
  Bind("pane.grow", {"alt", "shift"}, "="),
  Bind("pane.shrink", {"alt", "shift"}, "-"),
  Bind("terminal.copy", {"alt"}, "C"),
  Bind("terminal.paste", {"alt", "shift"}, "V"),
  Bind("terminal.search", {"ctrl", "shift"}, "F"),
  Bind("terminal.clear", {"ctrl", "shift"}, "K"),
  Bind("palette.open", {"ctrl", "shift"}, "P"),
  Bind("palette.openAlt", {"ctrl"}, "K"),
  Bind("quickSwitch", {"ctrl"}, "P"),
  Bind("settings.open", {"ctrl"}, "comma"),
  Bind("font.increase", {"ctrl"}, "="),
  Bind("font.decrease", {"ctrl"}, "-"),
  Bind("font.reset", {"ctrl"}, "0")>>

\* What a visitor of a shared terminal may do.
ForVisitors == {"terminal.copy", "terminal.paste", "terminal.search", "terminal.clear",
                "font.increase", "font.decrease", "font.reset"}

-----------------------------------------------------------------------------
\* event.key of the keyboard: a Mac composes with Alt.
KeyOf(place, mods) ==
  IF mac /\ "alt" \in mods /\ place \notin NamedKeys THEN "composed"
  ELSE IF place \in Symbols /\ "shift" \in mods
  THEN CHOOSE c \in DOMAIN SHIFTED : SHIFTED[c] = place
  ELSE place
Event(place, mods) == [key |-> KeyOf(place, mods), code |-> place, mods |-> mods]

\* Only what the key prints.
keyMatchesLiteral(event, expected) == event.key = expected
keyMatches(event, expected) ==
  \/ event.key = expected
  \/ event.key \in DOMAIN SHIFTED /\ SHIFTED[event.key] = expected
  \/ /\ expected \in Letters /\ event.code = expected
     /\ event.mods \cap {"ctrl", "alt", "meta"} # {}

implicitShift(event, binding) ==
  event.key \in DOMAIN SHIFTED /\ "shift" \notin binding.mods
matchesBinding(event, binding) ==
  /\ keyMatches(event, binding.key)
  /\ event.mods \ {"shift"} = binding.mods \ {"shift"}
  /\ \/ "shift" \in event.mods <=> "shift" \in binding.mods
     \/ implicitShift(event, binding)

Matching(event) ==
  {i \in DOMAIN DEFAULT_KEYBINDINGS : matchesBinding(event, DEFAULT_KEYBINDINGS[i])}
\* The first of the table; a key without Ctrl, Alt or Meta is left to a field.
Dispatched(event) ==
  IF modal \/ Matching(event) = {} THEN Nothing
  ELSE LET first == CHOOSE i \in Matching(event) : \A j \in Matching(event) : i <= j
           b == DEFAULT_KEYBINDINGS[first]
       IN  IF \/ visitor /\ b.action \notin ForVisitors
              \/ typing /\ b.mods \cap {"ctrl", "alt", "meta"} = {}
                        /\ b.action \notin {"palette.open", "quickSwitch"}
           THEN Nothing ELSE b.action

\* onKeydown: what the action does to the page itself.
onKeydown(event) ==
  LET action == Dispatched(event)
  IN  /\ modal' = (modal \/ action = "settings.open")
      /\ palette' = palette \cup
           (CASE action \in {"palette.open", "palette.openAlt"} -> {"commands"}
              [] action = "quickSwitch" -> {"quickSwitch"}
              [] OTHER -> {})
      /\ UNCHANGED <<mac, visitor, typing>>

\* Esc or a click beside it; both flags go, whichever was set.
PaletteCloses ==
  /\ palette # {} /\ palette' = {}
  /\ UNCHANGED <<mac, visitor, modal, typing>>
\* A dialog opens from a button or closes; neither is a shortcut.
Modal ==
  /\ modal' = ~modal
  /\ UNCHANGED <<mac, visitor, typing, palette>>
Focus ==
  /\ ~modal /\ typing' = ~typing
  /\ UNCHANGED <<mac, visitor, modal, palette>>

ShortcutsInit ==
  /\ mac \in BOOLEAN /\ visitor \in BOOLEAN
  /\ modal \in BOOLEAN /\ typing = FALSE /\ palette = {}

ShortcutsNext ==
  \/ \E place \in Places, mods \in SUBSET Modifiers : onKeydown(Event(place, mods))
  \/ PaletteCloses \/ Modal \/ Focus

ShortcutsSpec == ShortcutsInit /\ [][ShortcutsNext]_shortcutVars

-----------------------------------------------------------------------------

\* The variables have their types.
ShortcutsTypeOK ==
  /\ mac \in BOOLEAN /\ visitor \in BOOLEAN /\ modal \in BOOLEAN /\ typing \in BOOLEAN
  /\ palette \subseteq {"commands", "quickSwitch"}

\* The chord a person reads in the table: these keys, and a symbol that Shift
\* turns into another may be struck with Shift.  Alt and a symbol spell
\* nothing on a Mac.
Spells(place, mods, binding) ==
  /\ place = binding.key
  /\ mods \in {binding.mods} \cup
               IF place \in Symbols THEN {binding.mods \cup {"shift"}} ELSE {}
  /\ ~(mac /\ "alt" \in mods /\ place \in Symbols)

\* With the default bindings, a US keyboard and no dialog open, a chord runs
\* the one action it spells, in a terminal as on the page, and any other key
\* runs nothing: no binding shadows another, whatever the order of the table
\* (matchesBinding and onKeydown).  The table is the one of prefs.ts, which is
\* not quite the one README.md:139-140 describes.
ShortcutAsWritten ==
  ~modal =>
    \A place \in Places, mods \in SUBSET Modifiers :
      LET said == {b \in Range(DEFAULT_KEYBINDINGS) : Spells(place, mods, b)}
          may == {b \in said : visitor => b.action \in ForVisitors}
      IN  {Dispatched(Event(place, mods))} =
            IF may = {} THEN {Nothing} ELSE {b.action : b \in may}
==================================================================================
