----------------------------- MODULE MCChatTurn -----------------------------
(* Sets for the instances of ChatTurn that TLC checks. *)
EXTENDS ChatTurn

Old == {<<"text", "reply", "text", "reply">>}
Short == {<<"text", "reply">>}

AllCommands == {"enter", "ask", "commit", "init", "search", "fetch", "task", "strategy",
                "research", "gather", "gatherDone", "compact", "clear", "checkpoint",
                "rewind", "mode", "skill"}
SlowCommands == {"search", "gather", "strategy", "research"}
CommitCommands == {"enter", "commit"}
AllSuggestions == {"search", "research"}
=============================================================================
