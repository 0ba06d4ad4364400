----------------------------- MODULE NfcViewModel -----------------------------
(***************************************************************************)
(* NfcViewModel (src/view_models/nfc_view_model.cpp) and the part of       *)
(* NfcView it depends on: the sections of the page and the dialog that     *)
(* reports a failed initialization.  A dismissed dialog keeps the keys     *)
(* until it has moved off the screen, which only the view knows.           *)
(*                                                                         *)
(* Operators only: NfcApp calls them.  Scrolling and drawing are left out. *)
(***************************************************************************)
EXTENDS ReaderStatus

VARIABLES
    section,     \* _section
    active,      \* _initialization_dialog_active
    modal,       \* _initialization_dialog_modal_active
    lastFailed,  \* _last_failed_attempt
    offScreen    \* InitializationDialog::_hidden

dialog == <<active, modal, offScreen>>
pageVars == <<section, dialog, lastFailed>>

Sections == <<"Scan", "TagDetail", "ReaderInfo">>

PageInit ==
    /\ section = "Scan"
    /\ active = FALSE /\ modal = FALSE /\ offScreen = TRUE
    /\ lastFailed = 0

AtRoot == section = "Scan"

CanRetryReader == reader.state = "Error" /\ ~reader.unavailable

(* showInitializationDialog(), and the view observing it.                  *)
ShowDialog == active' = TRUE /\ modal' = TRUE /\ offScreen' = FALSE

DismissAtOnce ==           \* mutant: the keys are given back while it fades
    active' = FALSE /\ modal' = FALSE /\ UNCHANGED offScreen

Dismiss == active' = FALSE /\ UNCHANGED <<modal, offScreen>>

NoDialog == active' = FALSE /\ modal' = FALSE /\ offScreen' = TRUE

OnEnterSilent(s) ==        \* mutant: a failure at the start is not shown
    /\ section' = "Scan"
    /\ lastFailed' = s.failedAttempt
    /\ NoDialog

(* onEnter(), with status s.                                               *)
OnEnter(s) ==
    /\ section' = "Scan"
    /\ lastFailed' = s.failedAttempt
    /\ IF s.failed /\ s.failedAttempt # 0 THEN ShowDialog ELSE NoDialog

OnExit == NoDialog /\ UNCHANGED <<section, lastFailed>>

(* retryReader(): NfcModel::retry() has its answer before it returns.      *)
RetryReader ==
    /\ CanRetryReader
    /\ UNCHANGED <<section, lastFailed>>
    /\ \/ /\ reader' = Retrying(reader)
          /\ IF modal THEN Dismiss ELSE UNCHANGED dialog
       \/ /\ reader' = Refused(Retrying(reader))
          /\ ShowDialog

DialogKey(key) ==
    /\ modal
    /\ IF active /\ key = "Esc"
       THEN Dismiss /\ UNCHANGED <<reader, section, lastFailed>>
       ELSE IF active /\ key \in {"Enter", "R"} /\ CanRetryReader
       THEN RetryReader
       ELSE UNCHANGED <<reader, pageVars>>

IndexOf(s) == CHOOSE i \in DOMAIN Sections : Sections[i] = s

GoTo(s) == section' = s /\ UNCHANGED <<reader, dialog, lastFailed>>

SwitchSection(key) ==
    LET i == IndexOf(section)
    IN  \/ key = "Esc" /\ GoTo("Scan")
        \/ key = "Left" /\ GoTo(Sections[IF i = 1 THEN 1 ELSE i - 1])
        \/ key = "Right" /\ GoTo(Sections[IF i = 3 THEN 3 ELSE i + 1])

(* Enter retries where it can, and opens a tag if there is one.            *)
Confirm(key) ==
    \/ /\ section = "Scan" /\ key = "Enter"
       /\ \/ RetryReader
          \/ ~CanRetryReader /\ GoTo("TagDetail")
          \/ ~CanRetryReader /\ UNCHANGED <<reader, pageVars>>
    \/ section = "ReaderInfo" /\ key \in {"Enter", "R"} /\ RetryReader

PageKey(key) == ~modal /\ (SwitchSection(key) \/ Confirm(key))

Keys == {"Esc", "Enter", "R", "Left", "Right"}

(* onKey()                                                                 *)
OnKey(key) == DialogKey(key) \/ PageKey(key)

(* tick() with the status s that NfcModel's tick left, then NfcView's:     *)
(* faded says that the dialog has finished its way off the screen.         *)
NewFailure(s) == s.failed /\ s.failedAttempt # 0 /\ s.failedAttempt # lastFailed

Ready(s) == s.state \in {"Scanning", "Idle"}

Hidden(faded) == offScreen \/ faded

Hiding(faded) ==
    /\ active' = FALSE
    /\ offScreen' = Hidden(faded)
    /\ modal' = (modal /\ ~Hidden(faded))

PageTick(s, faded) ==
    \/ /\ NewFailure(s)
       /\ lastFailed' = s.failedAttempt
       /\ section' = "Scan"
       /\ ShowDialog
    \/ /\ ~NewFailure(s)
       /\ UNCHANGED <<lastFailed, section>>
       /\ IF active /\ ~Ready(s) THEN UNCHANGED dialog ELSE Hiding(faded)
=============================================================================
