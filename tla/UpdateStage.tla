----------------------------- MODULE UpdateStage -----------------------------
(***************************************************************************)
(* The stages of one update plan and the matrix of legal moves between     *)
(* them: enum UpdateStage, is_terminal and is_valid_transition.            *)
(***************************************************************************)

Stage == {"Downloading", "Inbox", "Staged", "Applying",
          "Applied", "Failed", "Rejected"}

(* The stage of a plan id whose directory holds no state.json. *)
Absent == "Absent"

Terminal == {"Applied", "Failed", "Rejected"}

Active == Stage \ Terminal

Transitions ==
    {<<"Downloading", "Inbox">>, <<"Downloading", "Failed">>,
     <<"Downloading", "Rejected">>, <<"Inbox", "Staged">>,
     <<"Inbox", "Failed">>, <<"Inbox", "Rejected">>,
     <<"Staged", "Applying">>, <<"Staged", "Rejected">>,
     <<"Applying", "Applied">>, <<"Applying", "Failed">>}

(* Two bugs to check the properties against: a failed plan starts over,    *)
(* and a download is staged without having landed.                         *)
IsValidOrRetry(from, to) ==
    <<from, to>> \in Transitions \cup {<<"Failed", "Inbox">>}

IsValidOrShortcut(from, to) ==
    <<from, to>> \in Transitions \cup {<<"Downloading", "Staged">>}

IsValidTransition(from, to) == <<from, to>> \in Transitions
=============================================================================
