----------------------------- MODULE IpcServer -----------------------------
(***************************************************************************)
(* The command server of a program, libplat/src/ipc_srv/ipc_srv.c: a       *)
(* thread (handle_thread) accepts the connections of ccli and hands each   *)
(* to a thread of its own (client_handle_srv_th), which looks the command  *)
(* up and calls what was registered for it.  Modules register and          *)
(* unregister their commands and the program its server meanwhile.         *)
(*                                                                         *)
(* hpc is where handle_thread is: none -> accept -> wait -> accept.        *)
(* cpc is where an asker and the thread that serves it are:                *)
(*   idle -> queued -> spawned -> started -> matched -> idle               *)
(***************************************************************************)
EXTENDS Integers, Sequences, SequencesExt

CONSTANTS Asker,       \* processes that call ak_cmd_send
          Cmd,         \* commands
          SrvFaults,   \* what may go wrong: see below
          MaxNode,     \* bound: commands registered in a run
          MaxAsk       \* bound: commands sent in a run

(* "live":     a command, or the server, is unregistered while a thread    *)
(*             that looked it up is at work                                *)
(* "nothread": the thread for a connection cannot be created               *)
SrvFault == {"live", "nothread"}
ASSUME SrvFaultsAssumption == SrvFaults \subseteq SrvFault
ASSUME CmdAssumption == Cmd # {} /\ MaxNode \in Nat

VARIABLES srv,          \* the server exists
          listening,    \* server_sock is open
          hpc, srv_sem,
          cmd_list,     \* what is registered, oldest first: [cmd, node]
          nodes,        \* list nodes allocated so far: names the node
          backlog,      \* connections not accepted yet, oldest first
          cpc, asked_cmd,
          match_msg,    \* the node the asker's thread found, or 0
          reply,        \* what the asker got: "none", "callback", "modules", "eof"
          was_in, was_out,  \* the command was, was not, registered since asked
          asks

serverVars == <<srv, listening, hpc, srv_sem>>
listVars == <<cmd_list, nodes>>
askVars == <<backlog, cpc, asked_cmd, match_msg, reply, asks>>
ghostVars == <<was_in, was_out>>
srvVars == <<serverVars, listVars, askVars, ghostVars>>

IpcInit == /\ srv = FALSE
           /\ listening = FALSE
           /\ hpc = "none"
           /\ srv_sem = 0
           /\ cmd_list = <<>>
           /\ nodes = 0
           /\ backlog = <<>>
           /\ cpc = [a \in Asker |-> "idle"]
           /\ asked_cmd = [a \in Asker |-> CHOOSE c \in Cmd : TRUE]
           /\ match_msg = [a \in Asker |-> 0]
           /\ reply = [a \in Asker |-> "none"]
           /\ was_in = [a \in Asker |-> FALSE]
           /\ was_out = [a \in Asker |-> FALSE]
           /\ asks = 0

Registered(list, c) == \E i \in DOMAIN list : list[i].cmd = c

(* Kept for the properties: what an asker's command was while it waited.   *)
Watch(list) == /\ was_in' = [a \in Asker |-> was_in[a] \/ Registered(list, asked_cmd[a])]
               /\ was_out' = [a \in Asker |-> was_out[a] \/ ~Registered(list, asked_cmd[a])]

Served(a) == cpc[a] \in {"spawned", "started", "matched"}
Undisturbed == "live" \in SrvFaults \/ \A a \in Asker : ~Served(a)

-----------------------------------------------------------------------------
(* The thread runs before the server is in the list where commands are     *)
(* registered: who asks at once finds no command.                          *)
ak_cmd_server_register == /\ ~srv
                          /\ hpc = "none"
                          /\ srv' = TRUE
                          /\ listening' = TRUE
                          /\ hpc' = "accept"
                          /\ srv_sem' = 0
                          /\ cmd_list' = <<>>
                          /\ UNCHANGED <<nodes, askVars, ghostVars>>

(* The handle thread is cancelled where it waits, the socket closed, the   *)
(* commands and the server freed: connections in the queue are reset.      *)
ak_cmd_server_unregister ==
  /\ srv
  /\ Undisturbed
  /\ srv' = FALSE
  /\ listening' = FALSE
  /\ hpc' = "none"
  /\ cmd_list' = <<>>
  /\ Watch(<<>>)
  /\ backlog' = <<>>
  /\ reply' = [a \in Asker |-> IF cpc[a] = "queued" THEN "eof" ELSE reply[a]]
  /\ cpc' = [a \in Asker |-> IF cpc[a] = "queued" THEN "idle" ELSE cpc[a]]
  /\ UNCHANGED <<srv_sem, nodes, asked_cmd, match_msg, asks>>

ak_cmd_register_msg_handle(c) ==
  /\ srv
  /\ nodes < MaxNode
  /\ nodes' = nodes + 1
  /\ cmd_list' = Append(cmd_list, [cmd |-> c, node |-> nodes + 1])
  /\ Watch(cmd_list')
  /\ UNCHANGED <<serverVars, askVars>>

(* The first node of the command goes; a command registered twice is still *)
(* there.                                                                  *)
First(list, c) == CHOOSE i \in DOMAIN list :
                    /\ list[i].cmd = c
                    /\ \A j \in 1..i - 1 : list[j].cmd # c

ak_cmd_unregister_msg_handle(c) ==
  /\ srv
  /\ Undisturbed
  /\ Registered(cmd_list, c)
  /\ cmd_list' = RemoveAt(cmd_list, First(cmd_list, c))
  /\ Watch(cmd_list')
  /\ UNCHANGED <<serverVars, nodes, askVars>>

-----------------------------------------------------------------------------
(* ak_cmd_send: connects, sends, and waits for an answer without end.      *)
ak_cmd_send(a, c) == /\ listening
                     /\ cpc[a] = "idle"
                     /\ asks < MaxAsk
                     /\ asks' = asks + 1
                     /\ cpc' = [cpc EXCEPT ![a] = "queued"]
                     /\ backlog' = Append(backlog, a)
                     /\ asked_cmd' = [asked_cmd EXCEPT ![a] = c]
                     /\ reply' = [reply EXCEPT ![a] = "none"]
                     /\ match_msg' = [match_msg EXCEPT ![a] = 0]
                     /\ was_in' = [was_in EXCEPT ![a] = Registered(cmd_list, c)]
                     /\ was_out' = [was_out EXCEPT ![a] = ~Registered(cmd_list, c)]
                     /\ UNCHANGED <<serverVars, listVars>>

(* handle_thread: a thread for the connection, which it waits to see run.  *)
Accept == /\ hpc = "accept"
          /\ backlog # <<>>
          /\ backlog' = Tail(backlog)
          /\ hpc' = "wait"
          /\ \/ cpc' = [cpc EXCEPT ![Head(backlog)] = "spawned"]
             \/ "nothread" \in SrvFaults /\ UNCHANGED cpc
          /\ UNCHANGED <<srv, listening, srv_sem, listVars, asked_cmd, match_msg,
                         reply, asks, ghostVars>>

HandleWakes == /\ hpc = "wait"
               /\ srv_sem > 0
               /\ srv_sem' = srv_sem - 1
               /\ hpc' = "accept"
               /\ UNCHANGED <<srv, listening, listVars, askVars, ghostVars>>

MutPostsNothing == UNCHANGED srv_sem
PostsSem == srv_sem' = srv_sem + 1

(* client_handle_srv_th and do_recv_and_parse.                             *)
ClientStarts(a) == /\ cpc[a] = "spawned"
                   /\ PostsSem
                   /\ cpc' = [cpc EXCEPT ![a] = "started"]
                   /\ UNCHANGED <<srv, listening, hpc, listVars, backlog, asked_cmd,
                                  match_msg, reply, asks, ghostVars>>

Finds(c) == IF Registered(cmd_list, c) THEN cmd_list[First(cmd_list, c)].node ELSE 0

(* Under srv_lock; the node is used after the lock is released.            *)
ClientMatches(a) == /\ cpc[a] = "started"
                    /\ match_msg' = [match_msg EXCEPT ![a] = Finds(asked_cmd[a])]
                    /\ cpc' = [cpc EXCEPT ![a] = "matched"]
                    /\ UNCHANGED <<serverVars, listVars, backlog, asked_cmd, reply,
                                   asks, ghostVars>>

(* The callback, or ak_cmd_show_working_modules; then the socket closes.   *)
ClientAnswers(a) == /\ cpc[a] = "matched"
                    /\ reply' = [reply EXCEPT ![a] = IF match_msg[a] # 0 THEN "callback"
                                                                         ELSE "modules"]
                    /\ cpc' = [cpc EXCEPT ![a] = "idle"]
                    /\ UNCHANGED <<serverVars, listVars, backlog, asked_cmd, match_msg,
                                   asks, ghostVars>>

ClientStep(a) == ClientStarts(a) \/ ClientMatches(a) \/ ClientAnswers(a)
HandleStep == Accept \/ HandleWakes

IpcNext == \/ ak_cmd_server_register
           \/ ak_cmd_server_unregister
           \/ \E c \in Cmd : \/ ak_cmd_register_msg_handle(c)
                             \/ ak_cmd_unregister_msg_handle(c)
                             \/ \E a \in Asker : ak_cmd_send(a, c)
           \/ HandleStep
           \/ \E a \in Asker : ClientStep(a)

-----------------------------------------------------------------------------
(* handle_thread waits for the thread it has just created and no other:    *)
(* the semaphore is 0 whenever it accepts (lines 397-401, 424-440).        *)
IpcTypeOK == /\ hpc \in {"none", "accept", "wait"}
             /\ srv_sem \in 0..1
             /\ srv => (srv_sem = 1 => hpc = "wait")
             /\ \A a \in Asker : cpc[a] \in {"idle", "queued", "spawned", "started", "matched"}
             /\ \A a \in Asker : match_msg[a] \in 0..MaxNode

(* What an asker gets fits what was registered while it waited: a callback *)
(* only if its command was, the list of modules only if it was not, at     *)
(* some moment since it asked (lines 368-388).                             *)
AnswerFits == \A a \in Asker : /\ reply[a] = "callback" => was_in[a]
                               /\ reply[a] = "modules" => was_out[a]

(* Who asks is answered or disconnected: ccli waits with no timeout.       *)
AskerComesBack == \A a \in Asker : []<>(cpc[a] = "idle")
=============================================================================
