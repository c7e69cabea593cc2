------------------------------ MODULE AppFrame ------------------------------
(***************************************************************************)
(* What surrounds every page: the theme, the screen's width and the title  *)
(* (stores/theme.ts, persistent.ts), as App.svelte, AppSidebar.svelte and  *)
(* routes/Settings.svelte use them.  Preferences are kept in the browser's *)
(* storage, where an earlier release kept a dark flag under "theme" and    *)
(* the titles "llama-swap" and "Llama Swap".                               *)
(***************************************************************************)
EXTENDS Naturals

CONSTANTS
  Names,            \* the palettes, "default" among them
  Titles,           \* what may be typed as the title, once trimmed; "" included
  InnerWidths       \* the widths a window may have

FrameAssumption == "default" \in Names /\ "" \in Titles /\ InnerWidths \subseteq Nat

Unset == "unset"
OldTitles == {"llama-swap", "Llama Swap"}
Modes == {"light", "dark", "system"}

VARIABLES
  stored,            \* the keys "theme", "theme-mode", "theme-name", "app-title"
  mode, name, title, \* the stores
  systemPrefersDark, screenWidth,
  prefersDark, innerWidth,   \* the system's preference and the window's width
  mounted,           \* App is mounted: its listeners are there
  wanted             \* the mode the user chose last, in whatever release

osVars == <<prefersDark, innerWidth>>
vars == <<stored, mode, name, title, systemPrefersDark, screenWidth, osVars, mounted, wanted>>

\* getInitialThemeMode: the flag of the earlier release is taken over, and removed
\* unless it cannot be read
InitialThemeMode(s) == IF s.theme \in {"light", "dark"} THEN s.theme ELSE "system"
WithoutFlag(s) == [s EXCEPT !.theme = IF @ \in {"light", "dark"} THEN Unset ELSE @]

\* persistentStore: what is stored, or the initial value, which is stored
Persistent(s, key, initial) == IF s[key] = Unset THEN initial ELSE s[key]

MigratedTitle(s) == IF s.title \in OldTitles THEN [s EXCEPT !.title = "llama-hugs"] ELSE s

\* the stores a page begins with
OpenedMode(s) == Persistent(s, "mode", InitialThemeMode(s))

\* the initial value is used and not stored
OpenedStoreUnwritten(s) == MigratedTitle(WithoutFlag(s))

\* what they leave in the storage
OpenedStore(s) ==
  [MigratedTitle(WithoutFlag(s)) EXCEPT !.mode = OpenedMode(s),
     !.name = Persistent(s, "name", "default"), !.title = Persistent(MigratedTitle(s), "title", "llama-hugs")]

\* checkScreenWidth
WidthOf(w) ==
  IF w < 640 THEN "xs" ELSE IF w < 768 THEN "sm" ELSE IF w < 1024 THEN "md"
  ELSE IF w < 1280 THEN "lg" ELSE IF w < 1536 THEN "xl" ELSE "2xl"

IsDarkMode == IF mode = "system" THEN systemPrefersDark ELSE mode = "dark"
IsNarrow == screenWidth \in {"xs", "sm", "md"}

Load(s) ==
  /\ stored' = OpenedStore(s)
  /\ mode' = OpenedMode(s)
  /\ name' = Persistent(s, "name", "default")
  /\ title' = Persistent(MigratedTitle(s), "title", "llama-hugs")
  /\ systemPrefersDark' = prefersDark /\ screenWidth' = "md" /\ mounted' = FALSE

Init ==
  \E theme \in {Unset, "light", "dark", "unreadable"}, m \in {Unset, "dark"}, t \in {Unset, "llama-swap"} :
    LET s == [theme |-> theme, mode |-> m, name |-> Unset, title |-> t] IN
    /\ stored = OpenedStore(s)
    /\ mode = OpenedMode(s) /\ name = "default" /\ title = "llama-hugs"
    /\ prefersDark \in BOOLEAN /\ systemPrefersDark = prefersDark
    /\ innerWidth \in InnerWidths /\ screenWidth = "md" /\ mounted = FALSE
    /\ wanted = IF m # Unset THEN m ELSE IF theme \in {"light", "dark"} THEN theme ELSE "system"

\* App's onMount: initScreenWidth and initSystemThemeListener
Mount ==
  /\ ~mounted /\ mounted' = TRUE
  /\ screenWidth' = WidthOf(innerWidth) /\ systemPrefersDark' = prefersDark
  /\ UNCHANGED <<stored, mode, name, title, osVars, wanted>>

SystemThemeChanges ==
  /\ prefersDark' = ~prefersDark
  /\ systemPrefersDark' = IF mounted THEN prefersDark' ELSE systemPrefersDark
  /\ UNCHANGED <<stored, mode, name, title, screenWidth, innerWidth, mounted, wanted>>

Resize(w) ==
  /\ innerWidth' = w
  /\ screenWidth' = IF mounted THEN WidthOf(w) ELSE screenWidth
  /\ UNCHANGED <<stored, mode, name, title, systemPrefersDark, prefersDark, mounted, wanted>>

SetMode(m) ==
  /\ mounted /\ mode' = m /\ stored' = [stored EXCEPT !.mode = m] /\ wanted' = m
  /\ UNCHANGED <<name, title, systemPrefersDark, screenWidth, osVars, mounted>>

\* the button of the side bar, and the list of the settings page
ToggleTheme == SetMode([system |-> "light", light |-> "dark", dark |-> "system"][mode])
ChooseMode(m) == SetMode(m)

ChooseName(n) ==
  /\ mounted /\ name' = n /\ stored' = [stored EXCEPT !.name = n]
  /\ UNCHANGED <<mode, title, systemPrefersDark, screenWidth, osVars, mounted, wanted>>

\* handleTitleChange
ChangeTitle(text) ==
  /\ mounted /\ title' = (IF text = "" THEN "llama-hugs" ELSE text)
  /\ stored' = [stored EXCEPT !.title = title']
  /\ UNCHANGED <<mode, name, systemPrefersDark, screenWidth, osVars, mounted, wanted>>

Reload == Load(stored) /\ UNCHANGED <<osVars, wanted>>

Next ==
  \/ Mount \/ SystemThemeChanges \/ ToggleTheme \/ Reload
  \/ \E w \in InnerWidths : Resize(w)
  \/ \E m \in Modes : ChooseMode(m)
  \/ \E n \in Names : ChooseName(n)
  \/ \E t \in Titles : ChangeTitle(t)

Spec == Init /\ [][Next]_vars

-----------------------------------------------------------------------------
\* The page looks as the user last asked, in this release or the one before, on
\* every visit: the mode survives its migration, and while the page is there it
\* follows the system's preference and the window.
ThemeKept ==
  /\ mode = wanted /\ OpenedMode(stored) = wanted
  /\ mounted =>
       /\ IsDarkMode = (wanted = "dark" \/ (wanted = "system" /\ prefersDark))
       /\ IsNarrow = (innerWidth < 1024)

\* A title that is set is there on the next visit.  Not the two titles of earlier
\* releases: they are replaced whenever the page is loaded, whoever chose them.
TitleKept == OpenedStore(stored).title = title
=============================================================================
