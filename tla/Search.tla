------------------------------- MODULE Search -------------------------------
(***************************************************************************)
(* Search (apps/search.c): every press of the button starts a thread that  *)
(* runs find, and each of them in the end sets the text of the one view,   *)
(* with no lock against the others or against the GTK thread.              *)
(***************************************************************************)
EXTENDS Integers

CONSTANTS
  Pattern,
  Searcher   \* the threads that the button may start, a bound

ASSUME SearchAssumption == Pattern # {}

VARIABLES
  entry,      \* the text of the search entry
  pattern,    \* what each thread was given
  searching,  \* the threads that read what find prints
  setting,    \* the threads inside gtk_text_buffer_set_text
  searched,   \* the threads that have ended
  shown,      \* the patterns whose results the view holds: one, if any
  recent,     \* history: what threads were given since the last time that
              \* none was running
  garbled,    \* history: two threads were once inside set_text together
  searchDied  \* the program has crashed

searchVars ==
  <<entry, pattern, searching, setting, searched, shown, recent, garbled, searchDied>>

SearchTypeOK ==
  /\ entry \in Pattern
  /\ pattern \in [Searcher -> Pattern]
  /\ searching \subseteq Searcher
  /\ setting \subseteq Searcher \ searching
  /\ searched \subseteq Searcher \ (searching \cup setting)
  /\ shown \subseteq Pattern /\ recent \subseteq Pattern
  /\ garbled \in BOOLEAN /\ searchDied \in BOOLEAN

SearchInit ==
  /\ entry = CHOOSE p \in Pattern : TRUE
  /\ pattern = [t \in Searcher |-> entry]
  /\ searching = {} /\ setting = {} /\ searched = {}
  /\ shown = {} /\ recent = {}
  /\ garbled = FALSE /\ searchDied = FALSE

-----------------------------------------------------------------------------
TypePattern(p) ==
  /\ ~searchDied
  /\ entry' = p
  /\ UNCHANGED <<pattern, searching, setting, searched, shown, recent, garbled,
                 searchDied>>

Started == searching \cup setting \cup searched
Under == searching \cup setting

DoSearch(t) ==
  /\ ~searchDied /\ t \notin Started
  /\ pattern' = [pattern EXCEPT ![t] = entry]
  /\ searching' = searching \cup {t}
  /\ recent' = {entry} \cup IF Under = {} THEN {} ELSE recent
  /\ UNCHANGED <<entry, setting, searched, shown, garbled, searchDied>>

\* pthread_create fails and nobody looks: the search that was asked for never
\* runs, and pthread_detach is given a t that was never set.
SearchNotStarted ==
  /\ ~searchDied
  /\ searchDied' \in BOOLEAN
  /\ UNCHANGED <<entry, pattern, searching, setting, searched, shown, recent, garbled>>

\* The end of what find prints; set_text begins.
FindEnds(t) ==
  /\ ~searchDied /\ t \in searching
  /\ searching' = searching \ {t}
  /\ garbled' = (garbled \/ setting # {})
  /\ setting' = setting \cup {t}
  /\ UNCHANGED <<entry, pattern, searched, shown, recent, searchDied>>

SharedPattern(t) == entry
OwnPattern(t) == pattern[t]

\* set_text is over.  Where two of them met, the text can be anything.
SetText(t) ==
  /\ ~searchDied /\ t \in setting
  /\ setting' = setting \ {t}
  /\ searched' = searched \cup {t}
  /\ \/ ~garbled /\ shown' = {OwnPattern(t)}
     \/ garbled /\ shown' \in SUBSET Pattern
  /\ UNCHANGED <<entry, pattern, searching, recent, garbled, searchDied>>

\* popen returns NULL and fgets reads from it; or set_text meets another one,
\* or the GTK thread at work on the same view.
SearchCrashes ==
  /\ ~searchDied /\ Under # {}
  /\ searchDied' = TRUE
  /\ UNCHANGED <<entry, pattern, searching, setting, searched, shown, recent, garbled>>

SearchNext ==
  \/ \E p \in Pattern : TypePattern(p)
  \/ \E t \in Searcher : DoSearch(t) \/ FindEnds(t) \/ SetText(t)
  \/ SearchNotStarted \/ SearchCrashes

-----------------------------------------------------------------------------
\* When the last thread has ended, and no two were inside set_text together,
\* the view holds the results of a search that was still going on when the
\* last thread was started, or of that one: a slower search may win, one that
\* was over before may not.  A search whose thread could not be started is not
\* one of them: the view then stays as it was.  (search.c:5-18, 21-26)
ShownIsRecent ==
  Under = {} /\ searched # {} /\ ~garbled => shown # {} /\ shown \subseteq recent
=============================================================================
