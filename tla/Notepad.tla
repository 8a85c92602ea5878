------------------------------ MODULE Notepad -------------------------------
(***************************************************************************)
(* Notepad+ (apps/notepad.c): a text, the path it is saved to, and a timer *)
(* that saves it every 30 seconds, also while a file chooser is open.  A   *)
(* save truncates the file and then writes it: the disk may be full, or    *)
(* the program killed, in between.                                         *)
(*                                                                         *)
(* Text is known by where it comes from: "typed" has been edited in the    *)
(* window, and d is the text that document d had at first.                 *)
(***************************************************************************)
CONSTANTS
  Doc,    \* paths that can be chosen
  NoDoc   \* the empty path

ASSUME NotepadAssumption ==
  NoDoc \notin Doc /\ Doc \cap {"empty", "typed", "binary"} = {}

Text == Doc \cup {"empty", "typed"}

VARIABLES
  file,       \* what is in each document; "binary" is not UTF-8
  file_path,
  text,       \* the buffer of the text view
  chooser,    \* "none", "open", "save", or "killed" for the whole program
  saving,     \* the document that auto_save has truncated and not written
  touched,    \* history: documents edited in the window, or chosen in Save
  unread,     \* history: what the window held each time that a document was
              \* opened and could not be read
  unwritten   \* history: documents that were truncated and not written

noteVars == <<file, file_path, text, chooser, saving, touched, unread, unwritten>>

NotepadTypeOK ==
  /\ file \in [Doc -> Text \cup {"binary"}]
  /\ file_path \in Doc \cup {NoDoc}
  /\ text \in Text
  /\ chooser \in {"none", "open", "save", "killed"}
  /\ saving \in Doc \cup {NoDoc}
  /\ touched \subseteq Doc /\ unwritten \subseteq Doc
  /\ unread \in [Doc -> SUBSET Text]

NotepadInit ==
  /\ file \in {f \in [Doc -> Doc \cup {"binary"}] :
                 \A d \in Doc : f[d] \in {d, "binary"}}
  /\ file_path = NoDoc
  /\ text = "empty"
  /\ chooser = "none"
  /\ saving = NoDoc
  /\ touched = {} /\ unwritten = {}
  /\ unread = [d \in Doc |-> {}]

-----------------------------------------------------------------------------
\* The GTK thread is in its main loop, or in that of a chooser.
InLoop == chooser # "killed" /\ saving = NoDoc

Type ==
  /\ InLoop /\ chooser = "none"
  /\ text' = "typed"
  /\ touched' = touched \cup ({file_path} \ {NoDoc})
  /\ UNCHANGED <<file, file_path, chooser, saving, unread, unwritten>>

Truncate(d) ==
  /\ file' = [file EXCEPT ![d] = "empty"]
  /\ saving' = d

\* The timer.  (A file that cannot be opened for writing stays as it is.)
AutoSave ==
  /\ InLoop /\ file_path # NoDoc
  /\ Truncate(file_path)
  /\ UNCHANGED <<file_path, text, chooser, touched, unread, unwritten>>

WriteText ==
  /\ saving # NoDoc /\ chooser # "killed"
  /\ \/ file' = [file EXCEPT ![saving] = text] /\ UNCHANGED unwritten
     \/ unwritten' = unwritten \cup {saving} /\ UNCHANGED file
  /\ saving' = NoDoc
  /\ UNCHANGED <<file_path, text, chooser, touched, unread>>

NotepadKilled ==
  /\ chooser # "killed"
  /\ chooser' = "killed"
  /\ UNCHANGED <<file, file_path, text, saving, touched, unread, unwritten>>

\* Open, or Save while there is no path.
OpenChooser(kind) ==
  /\ InLoop /\ chooser = "none"
  /\ kind = "save" => file_path = NoDoc
  /\ chooser' = kind
  /\ UNCHANGED <<file, file_path, text, saving, touched, unread, unwritten>>

CancelChooser ==
  /\ InLoop /\ chooser # "none"
  /\ chooser' = "none"
  /\ UNCHANGED <<file, file_path, text, saving, touched, unread, unwritten>>

ReadOver(d) == text
\* A text view does not take what is not UTF-8: it is left empty.
Read(d) == IF file[d] = "binary" THEN "empty" ELSE file[d]

Unread(d, held) == unread' = [unread EXCEPT ![d] = @ \cup {held}]

\* The path is set first, and stays set if the file cannot be read.
OpenFile(d) ==
  /\ InLoop /\ chooser = "open"
  /\ file_path' = d
  /\ chooser' = "none"
  /\ \/ text' = Read(d) /\ file[d] # "binary" /\ UNCHANGED unread
     \/ text' = Read(d) /\ file[d] = "binary" /\ Unread(d, "empty")
     \/ UNCHANGED text /\ Unread(d, text)
  /\ UNCHANGED <<file, saving, touched, unwritten>>

\* The path is chosen, and stays so if the file cannot be opened for writing.
SaveFile(d) ==
  /\ InLoop /\ chooser = "save"
  /\ file_path' = d
  /\ chooser' = "none"
  /\ touched' = touched \cup {d}
  /\ Truncate(d) \/ UNCHANGED <<file, saving>>
  /\ UNCHANGED <<text, unread, unwritten>>

NotepadNext ==
  \/ Type \/ AutoSave \/ WriteText \/ NotepadKilled
  \/ \E kind \in {"open", "save"} : OpenChooser(kind)
  \/ CancelChooser
  \/ \E d \in Doc : OpenFile(d) \/ SaveFile(d)

-----------------------------------------------------------------------------
\* What an untouched document can hold.
Own(d) ==
  {d, "binary"} \cup unread[d]
    \cup IF d \in unwritten \cup {saving} THEN {"empty"} ELSE {}

\* A document that the user neither edited nor chose to save to keeps what it
\* held, however saves, choosers and the timer follow each other, with two
\* exceptions.  One that could not be read when it was opened is the path of
\* the window all the same, and the next save leaves in it what the window held
\* at that moment, nothing else; and one that was truncated and not written
\* back is empty.  (notepad.c:7-21, 27-40, 47-56)
UntouchedKept == \A d \in Doc \ touched : file[d] \in Own(d)
=============================================================================
