------------------------------- MODULE Dashboard -------------------------------
(***************************************************************************)
(* bridge/dashboard_writer and bridge/dashboard_server: one thread writes  *)
(* dashboard_data.json every few seconds, one accepts connections and      *)
(* gives each a detached thread, which answers one request.  No mutex      *)
(* orders them: they meet in the files.  main, in Protection, starts and   *)
(* stops them.                                                             *)
(*                                                                         *)
(* A file is the sequence of its blocks, each written where its writer     *)
(* stands.  Requests that change nothing are one kind: the files served,   *)
(* /health, GET /config, and whatever is refused.                          *)
(***************************************************************************)
EXTENDS Naturals, Sequences

CONSTANTS Conns,            \* connections at one time
          Configs,          \* accepted configurations, sequences of blocks
          NoConfig          \* there is no config.json, or nothing is being saved

ASSUME NoConfigIsNone == NoConfig \notin Configs
ASSUME ConfigsAreTexts == \A cfg \in Configs : cfg # <<>> /\ cfg \in Seq({cfg[i] : i \in DOMAIN cfg})

VARIABLES writerRunning,    \* DashboardWriter::running_
          writer,           \* its thread
          serverRunning,    \* DashboardServer::running_
          listening,        \* listen_fd_ is open
          acceptor,         \* accept_loop
          conn,             \* the connections: where they are, what they save, how far
          configFile,       \* config.json
          burst,            \* history: the configurations saved since nobody was saving
          crossed,          \* history: they are of several saves, begun while another was under way
          short             \* history: a write of one of them failed

writerVars == <<writerRunning, writer>>
acceptVars == <<serverRunning, listening, acceptor>>
configVars == <<configFile, burst, crossed, short>>
dashboardVars == <<writerVars, acceptVars, conn, configVars>>

NoConn == [at |-> "none", cfg |-> NoConfig, written |-> 0]
Saving == {c \in Conns : conn[c].at = "saving"}

DashboardInit ==
  /\ writerRunning = FALSE /\ writer = "none"
  /\ serverRunning = FALSE /\ listening = FALSE /\ acceptor = "none"
  /\ conn = [c \in Conns |-> NoConn]
  /\ configFile \in Configs \cup {NoConfig} /\ burst = {configFile} \ {NoConfig}
  /\ crossed = FALSE /\ short = FALSE

-----------------------------------------------------------------------------
(* The writer: start, write_loop and stop. *)
WriterAt(here, next) ==
  /\ writer = here /\ writer' = next
  /\ UNCHANGED <<writerRunning, acceptVars, conn, configVars>>

WriterStarts ==
  /\ writerRunning' = TRUE /\ writer' = "head"
  /\ UNCHANGED <<acceptVars, conn, configVars>>

WriterLeaves == ~writerRunning /\ WriterAt("head", "done")

(* The file is opened and written; when the provider throws, or the file   *)
(* cannot be opened, nothing is.  Then the sleep, in steps of 100 ms that  *)
(* look at running_.                                                       *)
WriterOpens == writerRunning /\ WriterAt("head", "writing")
WriterSkips == writerRunning /\ WriterAt("head", "sleep")
WriterCloses == WriterAt("writing", "sleep")
WriterSleeps == WriterAt("sleep", "head")

WriterStep == WriterLeaves \/ WriterOpens \/ WriterSkips \/ WriterCloses \/ WriterSleeps

WriterStops ==
  /\ writerRunning' = FALSE
  /\ UNCHANGED <<writer, acceptVars, conn, configVars>>

WriterJoins ==
  /\ writer = "done" /\ writer' = "none"
  /\ UNCHANGED <<writerRunning, acceptVars, conn, configVars>>

-----------------------------------------------------------------------------
(* The server: start, which may find its port taken, accept_loop and stop. *)
quietFiles == <<writerVars, configVars>>

ServerStarts ==
  /\ \E bound \in BOOLEAN :
       /\ serverRunning' = bound /\ listening' = bound
       /\ acceptor' = IF bound THEN "head" ELSE "none"
  /\ UNCHANGED <<quietFiles, conn>>

AcceptorHead ==
  /\ acceptor = "head"
  /\ acceptor' = IF serverRunning THEN "accept" ELSE "done"
  /\ UNCHANGED <<quietFiles, serverRunning, listening, conn>>

Accepts(c) ==
  /\ acceptor = "accept" /\ listening
  /\ conn[c] = NoConn
  /\ conn' = [conn EXCEPT ![c].at = "request"]
  /\ acceptor' = "head"
  /\ UNCHANGED <<quietFiles, serverRunning, listening>>

(* accept() fails, on a closed socket always: the loop ends for good.      *)
AcceptFails ==
  /\ acceptor = "accept"
  /\ acceptor' = "done"
  /\ UNCHANGED <<quietFiles, serverRunning, listening, conn>>

(* What the accept loop does by itself once the socket is closed. *)
AcceptorLeaves == AcceptorHead \/ (~listening /\ AcceptFails)

ServerStops ==
  /\ serverRunning' = FALSE
  /\ UNCHANGED <<quietFiles, listening, acceptor, conn>>

ServerCloses ==
  /\ listening' = FALSE
  /\ UNCHANGED <<quietFiles, serverRunning, acceptor, conn>>

(* The threads of the connections are not joined. *)
ServerJoins ==
  /\ acceptor = "done" /\ acceptor' = "none"
  /\ UNCHANGED <<quietFiles, serverRunning, listening, conn>>

-----------------------------------------------------------------------------
(* A connection: handle_connection. *)
quietThreads == <<writerVars, acceptVars>>
ConnEnds(c) == conn' = [conn EXCEPT ![c] = NoConn]

(* Nothing arrives, or it changes nothing. *)
Answers(c) ==
  /\ conn[c].at = "request"
  /\ ConnEnds(c)
  /\ UNCHANGED <<quietThreads, configVars>>

(* POST /config, accepted: the file is truncated ... *)
SaveBegins(c, cfg) ==
  /\ conn[c].at = "request"
  /\ conn' = [conn EXCEPT ![c] = [at |-> "saving", cfg |-> cfg, written |-> 0]]
  /\ burst' = {cfg} \cup (IF Saving = {} THEN {} ELSE burst)
  /\ crossed' = (Saving # {}) /\ short' = (Saving # {} /\ short)

SaveOpensOver(c, cfg) ==
  /\ SaveBegins(c, cfg)
  /\ configFile' = IF configFile = NoConfig THEN <<>> ELSE configFile
  /\ UNCHANGED quietThreads

SaveOpens(c, cfg) ==
  /\ SaveBegins(c, cfg)
  /\ configFile' = <<>>
  /\ UNCHANGED quietThreads

(* Block b at place i of a file, which may have been truncated meanwhile:  *)
(* what was never written before it reads as zeros.                        *)
Put(file, i, b) ==
  [k \in 1 .. (IF i > Len(file) THEN i ELSE Len(file)) |->
     IF k = i THEN b ELSE IF k <= Len(file) THEN file[k] ELSE "zero"]

(* ... and written block by block.  The bridge gives no callback to call.  *)
SaveWrites(c) ==
  /\ conn[c].at = "saving"
  /\ LET n == conn[c].written + 1 IN
       /\ configFile' = Put(configFile, n, conn[c].cfg[n])
       /\ IF n = Len(conn[c].cfg)
            THEN ConnEnds(c)
            ELSE conn' = [conn EXCEPT ![c].written = n]
  /\ UNCHANGED <<quietThreads, burst, crossed, short>>

(* A write or the close fails, which nobody looks at: the rest is not      *)
(* written, and the connection is told that the configuration is saved.    *)
SaveFails(c) ==
  /\ conn[c].at = "saving"
  /\ ConnEnds(c)
  /\ short' = TRUE
  /\ UNCHANGED <<quietThreads, configFile, burst, crossed>>

(* POST /exec of a command on the list: the thread reads its output until  *)
(* the command closes it or has filled 20 KB, however long that takes, and *)
(* only then gives it 5 s to end, or terminates it.                        *)
CommandBegins(c) ==
  /\ conn[c].at = "request"
  /\ conn' = [conn EXCEPT ![c].at = "command"]
  /\ UNCHANGED <<quietThreads, configVars>>

CommandIsOver(c) ==
  /\ conn[c].at = "command"
  /\ ConnEnds(c)
  /\ UNCHANGED <<quietThreads, configVars>>

ConnStep(c) ==
  \/ Answers(c)
  \/ \E cfg \in Configs : SaveOpens(c, cfg)
  \/ SaveWrites(c) \/ SaveFails(c)
  \/ CommandBegins(c) \/ CommandIsOver(c)

-----------------------------------------------------------------------------
(* Types of the two headers, and where a connection can be. *)
DashboardTypeOK ==
  /\ writerRunning \in BOOLEAN /\ serverRunning \in BOOLEAN /\ listening \in BOOLEAN
  /\ writer \in {"none", "head", "writing", "sleep", "done"}
  /\ acceptor \in {"none", "head", "accept", "done"}
  /\ conn \in [Conns -> [at : {"none", "request", "saving", "command"},
                        cfg : Configs \cup {NoConfig}, written : Nat]]
  /\ \A c \in Conns :
       IF conn[c].at = "saving"
         THEN conn[c].cfg \in Configs /\ conn[c].written < Len(conn[c].cfg)
         ELSE conn[c] = [NoConn EXCEPT !.at = conn[c].at]
  /\ burst \subseteq Configs /\ crossed \in BOOLEAN /\ short \in BOOLEAN

(* What config.json holds is of the configurations saved together last,    *)
(* block by block, and zeros where one truncated what another had written; *)
(* nothing of an earlier one outlives a save, whatever saves cross and     *)
(* whichever write fails.  When nobody is saving and the last save crossed *)
(* none, it is that configuration, or the beginning of it if a write       *)
(* failed (handle_config_post, which takes no lock and looks at no write). *)
FromBurst ==
  \A k \in DOMAIN configFile :
    configFile[k] = "zero" \/ \E cfg \in burst : k \in DOMAIN cfg /\ configFile[k] = cfg[k]
BeginningOf(cfg) == configFile = SubSeq(cfg, 1, Len(configFile))

ConfigIsFromTheLastBurst ==
  /\ configFile # NoConfig => FromBurst
  /\ Saving = {} /\ ~crossed =>
       \A cfg \in burst : BeginningOf(cfg) /\ (~short => configFile = cfg)
=============================================================================
