--------------------------- MODULE CallNavigation ---------------------------
(***************************************************************************)
(* The call navigation preference of an internal user (app/preferences.py  *)
(* and its two writers in app/main.py, migrations 044 to 046).             *)
(*                                                                         *)
(* The preference is one row with two fields, the mode and the call opened *)
(* last.  Opening a call and choosing a mode each read the row and write   *)
(* all of it back in another transaction; the pages of one user run        *)
(* concurrently in two worker processes.                                   *)
(*                                                                         *)
(* The weakened twin above a definition is a mutant of it.                 *)
(***************************************************************************)
EXTENDS Naturals, FiniteSets

CONSTANTS
  Calls,         \* the calls the user may read
  Modes, DefaultMode,
  Tabs,          \* the user's pages that may be loading at one time
  NoCall,
  MaxSteps       \* bound on the pages opened and modes chosen

ASSUME NavigationAssumption == DefaultMode \in Modes /\ NoCall \notin Calls

VARIABLES
  preference,    \* UserPreference: mode and last call
  tabs,          \* what a tab read before it writes the row back
  chosen,        \* history: the mode the user was last told is stored
  opened,        \* history: the call whose visit was stored last
  crossed,       \* history: what open pages had read of a field when it was stored last
  steps

navigationVars == <<preference, tabs, chosen, opened, crossed, steps>>

Idle == [step |-> "idle"]

NavigationInit ==
  /\ preference = [mode |-> DefaultMode, last |-> NoCall]
  /\ tabs = [t \in Tabs |-> Idle]
  /\ chosen = DefaultMode
  /\ opened = NoCall
  /\ crossed = [mode |-> {}, last |-> {}]
  /\ steps = 0

Step == steps < MaxSteps /\ steps' = steps + 1

---------------------------------------------------------------------------

\* GetCallNavigationPreference and SetCallNavigationPreference, each in a
\* transaction of its own.
LoadCallNavigation == preference
SaveCallNavigation(p) == preference' = p

\* GET of a call's page: the call is resolved and the preference loaded.
Visit(t, c) ==
  /\ Step
  /\ tabs[t] = Idle
  /\ tabs' = [tabs EXCEPT ![t] = [step |-> "visiting", call |-> c, mode |-> LoadCallNavigation.mode]]
  /\ UNCHANGED <<preference, chosen, opened, crossed>>

\* The modes that visits under way have read, and the calls that choices have.
ModesRead == {tabs[t].mode : t \in {u \in Tabs : tabs[u].step = "visiting"}}
CallsRead == {tabs[t].last : t \in {u \in Tabs : tabs[u].step = "choosing"}}

\* A plausible bug: a visit stores the default mode.
VisitDefault(t) == [mode |-> DefaultMode, last |-> tabs[t].call]
VisitStored(t) == [mode |-> tabs[t].mode, last |-> tabs[t].call]

\* ... the call is remembered, with the mode that was loaded, and the page is
\* drawn from reads that change nothing.
Remember(t) ==
  /\ tabs[t].step = "visiting"
  /\ SaveCallNavigation(VisitStored(t))
  /\ opened' = tabs[t].call
  /\ crossed' = [crossed EXCEPT !.last = CallsRead]
  /\ tabs' = [tabs EXCEPT ![t] = Idle]
  /\ UNCHANGED <<chosen, steps>>

\* POST call-navigation-preference: the last call is loaded ...
ChooseMode(t, m) ==
  /\ Step
  /\ tabs[t] = Idle
  /\ tabs' = [tabs EXCEPT ![t] = [step |-> "choosing", mode |-> m, last |-> LoadCallNavigation.last]]
  /\ UNCHANGED <<preference, chosen, opened, crossed>>

\* ... and stored with the new mode.
StoreMode(t) ==
  /\ tabs[t].step = "choosing"
  /\ SaveCallNavigation([mode |-> tabs[t].mode, last |-> tabs[t].last])
  /\ chosen' = tabs[t].mode
  /\ crossed' = [crossed EXCEPT !.mode = ModesRead]
  /\ tabs' = [tabs EXCEPT ![t] = Idle]
  /\ UNCHANGED <<opened, steps>>

\* The request ends before its second transaction.
Drop(t) ==
  /\ tabs[t] # Idle
  /\ tabs' = [tabs EXCEPT ![t] = Idle]
  /\ UNCHANGED <<preference, chosen, opened, crossed, steps>>

NavigationNext ==
  \E t \in Tabs : \/ \E c \in Calls : Visit(t, c)
                  \/ \E m \in Modes : ChooseMode(t, m)
                  \/ Remember(t) \/ StoreMode(t) \/ Drop(t)

---------------------------------------------------------------------------

\* The row holds the mode the user chose last and the call opened last,
\* although every page writes both fields.  The update of a page that had read
\* a field before it was stored may win (the lost update of main.py:624), but
\* brings back no value other than the one that page had read
\* (internal_call_workspace, set_call_navigation_preference).
PreferenceIsKept ==
  /\ preference.mode \in {chosen} \cup crossed.mode
  /\ preference.last \in {opened} \cup crossed.last

OpenPages ==
  {Idle} \cup [step : {"visiting"}, call : Calls, mode : Modes]
         \cup [step : {"choosing"}, mode : Modes, last : Calls \cup {NoCall}]

NavigationTypeOK ==
  /\ preference \in [mode : Modes, last : Calls \cup {NoCall}]
  /\ tabs \in [Tabs -> OpenPages]
  /\ chosen \in Modes /\ opened \in Calls \cup {NoCall}
  /\ crossed \in [mode : SUBSET Modes, last : SUBSET (Calls \cup {NoCall})]
  /\ steps \in Nat

\* A page that is loading will write back the field it read: what the user
\* stored last, or what was read before that.
PagesReadTheLatest ==
  \A t \in Tabs :
     /\ tabs[t].step = "visiting" => tabs[t].mode \in {chosen} \cup crossed.mode
     /\ tabs[t].step = "choosing" => tabs[t].last \in {opened} \cup crossed.last

NavigationInv == NavigationTypeOK /\ PagesReadTheLatest /\ PreferenceIsKept
=============================================================================
