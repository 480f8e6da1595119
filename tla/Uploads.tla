-------------------------------- MODULE Uploads ---------------------------------
(* Attachments: the page's upload jobs (useAttachments), the upload sessions,   *)
(* file rows and bytes of the server, and the messages files are sent with.      *)
(* The page is a client of Accounts and calls with the token it had when a job  *)
(* began; files whose access or token goes away are refused on the way.         *)
EXTENDS Accounts

CONSTANTS
    Files,      \* uploads, each with the file row it makes
    Encrypted,  \* those that another client of the interface made with encrypted set
    Messages,   \* messages the page may send
    Page        \* the page's slot

ASSUME UploadAssumption ==
    /\ Encrypted \subseteq Files /\ Page \in Slots
    /\ \A s \in Scopes : s.files \subseteq Files /\ s.faults \subseteq {"net", "restart", "access"}

VARIABLES
    member,  \* whether the user has access to the workspace
    job,     \* by file, where handleFileUpload is
    fresh,   \* by file, whether the job's token is still accepted
    put,     \* by file, where the PUT is on the server
    row,     \* by file, scanStatus of its row
    session, \* by file, its upload session
    content, \* files whose bytes the process has (devFileContent)
    showing, \* entries of the page's list of uploads
    tray,    \* pendingAttachments
    sealing, \* submit awaits the encryption of a message
    sent,    \* by message, the files it names and where it is
    gone     \* history: files whose bytes went with a process

page  == <<job, fresh, showing, tray, sealing>>
disk  == <<row, session>>
uvars == <<member, page, put, disk, content, sent, gone>>
vars  == <<avars, uvars>>

May(x) == x \in scope.faults
Gone   == [at |-> "none", files |-> {}]

Init ==
    /\ AInit /\ member = TRUE
    /\ job = [f \in Files |-> "idle"] /\ fresh = [f \in Files |-> TRUE]
    /\ put = [f \in Files |-> "none"]
    /\ row = [f \in Files |-> "none"] /\ session = [f \in Files |-> "none"]
    /\ content = {} /\ showing = {} /\ tray = {} /\ sealing = FALSE
    /\ sent = [m \in Messages |-> Gone] /\ gone = {}
-------------------------------------------------------------------------------
Choose(f) ==
    /\ f \in scope.files /\ token[Page] /\ job[f] = "idle"
    /\ job' = [job EXCEPT ![f] = "asking"] /\ showing' = showing \cup {f}
    /\ UNCHANGED <<avars, member, fresh, put, disk, content, tray, sealing, sent, gone>>

\* File and session are made together.
Make(f) ==
    /\ row' = [row EXCEPT ![f] = IF f \in Encrypted THEN "skipped" ELSE "pending"]
    /\ session' = [session EXCEPT ![f] = "pending"]

\* createUploadSession, whose answer the page puts the bytes with.
CreateSession(f) ==
    /\ job[f] = "asking" /\ fresh[f] /\ member /\ Make(f)
    /\ job' = [job EXCEPT ![f] = "putting"] /\ put' = [put EXCEPT ![f] = "arrived"]
    /\ UNCHANGED <<avars, member, fresh, content, showing, tray, sealing, sent, gone>>

\* Refused, for want of a token, of access or of a content type, the job returns
\* and leaves its entry in the list.
CreateRefused(f) ==
    /\ job[f] = "asking" /\ job' = [job EXCEPT ![f] = "over"]
    /\ UNCHANGED <<avars, member, fresh, put, showing, disk, content, tray, sealing, sent, gone>>

\* What the page does with a refusal, and with the answer to its PUT.
Refuse(f) == job' = [job EXCEPT ![f] = "over"] /\ showing' = showing \ {f}

\* Mutant: the status of the answer is not looked at.
PutAnswer_Unchecked(f, ok) == job' = [job EXCEPT ![f] = "completing"] /\ UNCHANGED showing

PutAnswer(f, ok) ==
    IF job[f] # "putting" THEN UNCHANGED <<job, showing>>
    ELSE IF ok THEN job' = [job EXCEPT ![f] = "completing"] /\ UNCHANGED showing
    ELSE Refuse(f)

\* PUT /dev-upload: the token, the session; the body; the file and access to it;
\* its row; its bytes.
Admit(f) ==
    LET ok == fresh[f] /\ session[f] # "none"
    IN  /\ put[f] = "arrived" /\ put' = [put EXCEPT ![f] = IF ok THEN "admitted" ELSE "none"]
        /\ IF ok THEN UNCHANGED <<job, showing>> ELSE PutAnswer(f, FALSE)
        /\ UNCHANGED <<avars, member, fresh, disk, content, tray, sealing, sent, gone>>

Find(f) ==
    LET ok == member /\ row[f] # "none"
    IN  /\ put[f] = "admitted" /\ put' = [put EXCEPT ![f] = IF ok THEN "found" ELSE "none"]
        /\ IF ok THEN UNCHANGED <<job, showing>> ELSE PutAnswer(f, FALSE)
        /\ UNCHANGED <<avars, member, fresh, disk, content, tray, sealing, sent, gone>>

UpdateDevUpload(f) ==
    /\ put[f] = "found" /\ put' = [put EXCEPT ![f] = "updated"]
    /\ row' = [row EXCEPT ![f] = "clean"]
    /\ UNCHANGED <<avars, member, page, session, content, sent, gone>>

Keep(f) ==
    /\ put[f] = "updated" /\ put' = [put EXCEPT ![f] = "none"]
    /\ content' = content \cup {f} /\ PutAnswer(f, TRUE)
    /\ UNCHANGED <<avars, member, fresh, disk, tray, sealing, sent, gone>>

\* The user cancels, or the network does; a body still on its way is cut off.
Cancel(f) ==
    /\ job[f] = "putting" /\ Refuse(f)
    /\ put' \in {put, [put EXCEPT ![f] = IF @ \in {"arrived", "admitted"} THEN "none" ELSE @]}
    /\ UNCHANGED <<avars, member, fresh, disk, content, tray, sealing, sent, gone>>

\* completeUpload; over PostgreSQL only a pending session.  The page does not
\* look at the answer, but stops if there is none.
CompleteSession(f) ==
    /\ job[f] = "completing"
    /\ \/ /\ job' = [job EXCEPT ![f] = "completed"] /\ UNCHANGED showing
          /\ session' = [session EXCEPT ![f] = IF fresh[f] THEN "completed" ELSE @]
       \/ May("net") /\ Refuse(f) /\ UNCHANGED session
    /\ UNCHANGED <<avars, member, fresh, put, row, content, tray, sealing, sent, gone>>

\* The file is pending with the scanStatus its row had when it was made.
Pend(f) ==
    /\ job[f] = "completed" /\ job' = [job EXCEPT ![f] = "over"] /\ showing' = showing \ {f}
    /\ tray' = tray \cup {f}
    /\ UNCHANGED <<avars, member, fresh, put, disk, content, sealing, sent, gone>>
-------------------------------------------------------------------------------
\* submit to a normal channel, whichever was open when the files were chosen.
Submit(m) ==
    /\ tray # {} /\ sent[m] = Gone
    /\ sent' = [sent EXCEPT ![m] = [at |-> "sending", files |-> tray]] /\ tray' = {}
    /\ UNCHANGED <<avars, member, job, fresh, showing, sealing, put, disk, content, gone>>

\* Without a connection, or with a command, it is cleared and not sent.
SubmitDropped ==
    /\ May("net") /\ tray # {} /\ tray' = {}
    /\ UNCHANGED <<avars, member, job, fresh, showing, sealing, put, disk, content, sent, gone>>

\* To an encrypted channel no file goes along; the tray is cleared after the
\* awaits, unless the message went to the peer or in p2p mode.
Seal ==
    /\ tray # {} /\ ~sealing /\ sealing' = TRUE
    /\ UNCHANGED <<avars, member, job, fresh, showing, tray, put, disk, content, sent, gone>>
Sealed ==
    /\ sealing /\ sealing' = FALSE /\ tray' \in {tray, {}}
    /\ UNCHANGED <<avars, member, job, fresh, showing, put, disk, content, sent, gone>>

\* messageService.send: access, validateAttachmentRefs, and then the message with
\* its attachments.
Ref(f) == IF f \in Encrypted THEN "skipped" ELSE "pending"
ValidRef(f) == row[f] # "none" /\ row[f] # "blocked" /\ (f \in Encrypted => Ref(f) = "skipped")
Validate(m) ==
    /\ sent[m].at = "sending"
    /\ sent' = [sent EXCEPT ![m].at =
                  IF member /\ \A f \in sent[m].files : ValidRef(f) THEN "valid" ELSE "refused"]
    /\ UNCHANGED <<avars, member, page, put, disk, content, gone>>
Associate(m) ==
    /\ sent[m].at = "valid" /\ sent' = [sent EXCEPT ![m].at = "stored"]
    /\ UNCHANGED <<avars, member, page, put, disk, content, gone>>
-------------------------------------------------------------------------------
\* The access token's fifteen minutes are over, for the jobs that hold it.
Expire(f) ==
    /\ May("access") /\ job[f] \in {"asking", "putting", "completing"} /\ fresh[f]
    /\ fresh' = [fresh EXCEPT ![f] = FALSE]
    /\ UNCHANGED <<avars, member, job, showing, tray, sealing, put, disk, content, sent, gone>>

\* Somebody removes the user from the workspace, or adds it again.
Membership ==
    /\ May("access") /\ member' = ~member
    /\ UNCHANGED <<avars, page, put, disk, content, sent, gone>>

\* The bytes are the process's even over PostgreSQL; calls under way end in a
\* network error, and messages not yet stored are not.
Restart ==
    /\ May("restart") /\ ARestart
    /\ content' = {} /\ gone' = gone \cup content
    /\ put' = [f \in Files |-> "none"]
    /\ LET cut == {f \in Files : job[f] \in {"asking", "putting", "completing"}}
       IN  job' = [f \in Files |-> IF f \in cut THEN "over" ELSE job[f]] /\ showing' = showing \ cut
    /\ IF scope.backend = "memory"
       THEN row' = [f \in Files |-> "none"] /\ session' = [f \in Files |-> "none"]
       ELSE UNCHANGED disk
    /\ sent' = [m \in Messages |->
                  IF sent[m].at \in {"sending", "valid"} \/ (sent[m].at = "stored" /\ scope.backend = "memory")
                  THEN [sent[m] EXCEPT !.at = "lost"] ELSE sent[m]]
    /\ UNCHANGED <<member, fresh, tray, sealing>>

UNext ==
    \/ \E f \in Files :
        \/ Choose(f) \/ CreateSession(f) \/ CreateRefused(f) \/ Admit(f) \/ Find(f) \/ UpdateDevUpload(f)
        \/ Keep(f) \/ Cancel(f) \/ CompleteSession(f) \/ Pend(f) \/ Expire(f)
    \/ \E m \in Messages : Submit(m) \/ Validate(m) \/ Associate(m)
    \/ SubmitDropped \/ Seal \/ Sealed \/ Membership \/ Restart

Next == (ANext /\ UNCHANGED uvars) \/ UNext

Spec == Init /\ [][Next]_vars
-------------------------------------------------------------------------------
\* useAttachments.ts:11-16: a file is pending once its bytes are at the server and
\* goes with the next message.  So a stored message names files that can be
\* downloaded, unless the process that had their bytes is gone, and no file goes
\* with two messages.
Fetchable ==
    /\ \A m \in Messages : sent[m].at = "stored" =>
         \A f \in sent[m].files : row[f] = "clean" /\ (f \in content \/ f \in gone)
    /\ \A m, n \in Messages : m # n => sent[m].files \cap sent[n].files = {}
===============================================================================
