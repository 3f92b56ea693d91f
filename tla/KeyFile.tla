------------------------------- MODULE KeyFile -------------------------------
(***************************************************************************)
(* The key pair hbbs and hbbr share through the files id_ed25519 and       *)
(* id_ed25519.pub: gen_sk (src/src/common.rs), called at the start of both *)
(* servers, and the container's script that puts provided keys there       *)
(* before they start (key-secret/up.real).                                 *)
(*                                                                         *)
(* Every system call on a file is an action.  File::create empties a file, *)
(* one write fills it.  A process dies anywhere and is started again;      *)
(* when the container is started again its script runs first.  The waits   *)
(* before gen_sk (300 ms in hbbr, "sleep 2" before hbbs) make the two      *)
(* unlikely to meet and are left out.                                      *)
(***************************************************************************)
EXTENDS Naturals, FiniteSets

CONSTANTS Server,     \* those that call gen_sk: both, with key "-" or "_"
          Key,        \* key pairs: id_ed25519 and id_ed25519.pub of one key
          GivenKey,   \* the one of the container's secrets
          NoKey,
          Absent, Empty,  \* no file; a file that holds no key
          IoMayFail

ASSUME KeyAssumption ==
  /\ GivenKey \in Key
  /\ NoKey \notin Key /\ Absent \notin Key /\ Empty \notin Key
  /\ Absent # Empty /\ IoMayFail \in BOOLEAN

VARIABLES
  pub,     \* id_ed25519.pub
  sk,      \* id_ed25519
  pc,      \* where gen_sk of a server is
  mine,    \* the key a server has generated or serves with
  script,  \* where up.real is; "none" outside of the container
  given,   \* the secrets: {}, {"pub"}, {"priv"} or both
  raced,   \* history: two servers generated at once
  failed   \* history: a file could not be created or written

keyVars == <<pub, sk, pc, mine, script, given, raced, failed>>

Content == Key \cup {Absent, Empty}
Generating == {"create_pub", "write_pub", "create_sk", "write_sk"}
Pc == {"down", "exited", "open", "read", "serving"} \cup Generating
Script == {"none", "pub", "sk", "check", "done", "halted"}

KeyInit ==
  /\ pub = Absent /\ sk = Absent
  /\ pc = [s \in Server |-> "down"]
  /\ mine = [s \in Server |-> NoKey]
  /\ script \in {"none", "pub"}
  /\ given \in SUBSET {"pub", "priv"}
  /\ raced = FALSE /\ failed = FALSE

-----------------------------------------------------------------------------
(* gen_sk *)

Goto(s, l) == pc' = [pc EXCEPT ![s] = l]
Holds(s, k) == mine' = [mine EXCEPT ![s] = k]

Start(s) ==
  /\ pc[s] \in {"down", "exited"} /\ script \in {"none", "done"}
  /\ Goto(s, "open")
  /\ UNCHANGED <<pub, sk, mine, script, given, raced, failed>>

\* A key nobody has seen before.
Fresh == Key \ ({pub, sk, GivenKey} \cup {mine[s] : s \in Server})

Generate(s) ==
  /\ \E k \in Fresh : Holds(s, k)
  /\ raced' = (raced \/ \E t \in Server \ {s} : pc[t] \in Generating)
  /\ Goto(s, "create_pub")
  /\ UNCHANGED <<pub, sk, script, given, failed>>

\* Mutants: every start makes a new key; a public key without a private one
\* is taken for a damaged pair, as the script takes it.
OpenBlind(s) == pc[s] = "open" /\ Generate(s)
OpenBoth(s) ==
  /\ pc[s] = "open"
  /\ \/ sk = Absent /\ pub = Absent /\ Generate(s)
     \/ /\ sk # Absent \/ pub # Absent
        /\ Goto(s, IF sk = Absent THEN "exited" ELSE "read")
        /\ UNCHANGED <<pub, sk, mine, script, given, raced, failed>>

Open(s) ==
  /\ pc[s] = "open"
  /\ \/ sk = Absent /\ Generate(s)
     \/ /\ sk # Absent /\ Goto(s, "read")
        /\ UNCHANGED <<pub, sk, mine, script, given, raced, failed>>

\* "malformed private key": the process ends.
Read(s) ==
  /\ pc[s] = "read"
  /\ \/ sk = Empty /\ Goto(s, "exited") /\ UNCHANGED mine
     \/ sk # Empty /\ Goto(s, "serving") /\ Holds(s, sk)
  /\ UNCHANGED <<pub, sk, script, given, raced, failed>>

\* Mutant: a public key that is there is left alone.
CreatePubOnce(s) ==
  /\ pc[s] = "create_pub"
  /\ \/ pub = Absent /\ pub' = Empty /\ Goto(s, "write_pub")
     \/ pub # Absent /\ Goto(s, "create_sk") /\ UNCHANGED pub
  /\ UNCHANGED <<sk, mine, script, given, raced, failed>>

CreatePub(s) ==
  /\ pc[s] = "create_pub"
  /\ pub' = Empty
  /\ Goto(s, "write_pub")
  /\ UNCHANGED <<sk, mine, script, given, raced, failed>>

WritePub(s) ==
  /\ pc[s] = "write_pub"
  /\ \/ pub' = mine[s] /\ UNCHANGED failed
     \/ IoMayFail /\ failed' = TRUE /\ UNCHANGED pub   \* .ok()
  /\ Goto(s, "create_sk")
  /\ UNCHANGED <<sk, mine, script, given, raced>>

CreateSk(s) ==
  /\ pc[s] = "create_sk"
  /\ sk' = Empty
  /\ Goto(s, "write_sk")
  /\ UNCHANGED <<pub, mine, script, given, raced, failed>>

WriteSk(s) ==
  /\ pc[s] = "write_sk"
  /\ sk' = mine[s]
  /\ Goto(s, "serving")
  /\ UNCHANGED <<pub, mine, script, given, raced, failed>>

\* A file cannot be read, created or written: gen_sk returns no key, and the
\* server serves without one.
NoFile(s) ==
  /\ IoMayFail
  /\ pc[s] \in {"read", "create_pub", "create_sk", "write_sk"}
  /\ Goto(s, "serving") /\ Holds(s, NoKey)
  /\ failed' = TRUE
  /\ UNCHANGED <<pub, sk, script, given, raced>>

-----------------------------------------------------------------------------
(* up.real: secrets become files where there are none, and the pair has to   *)
(* be there and valid, or not be there at all.                               *)

PutPub ==
  /\ script = "pub" /\ script' = "sk"
  /\ pub' = IF pub = Absent /\ "pub" \in given THEN GivenKey ELSE pub
  /\ UNCHANGED <<sk, pc, mine, given, raced, failed>>

PutSk ==
  /\ script = "sk" /\ script' = "check"
  /\ sk' = IF sk = Absent /\ "priv" \in given THEN GivenKey ELSE sk
  /\ UNCHANGED <<pub, pc, mine, given, raced, failed>>

ValidPair == pub \in Key /\ pub = sk

Verdict ==
  /\ script = "check"
  /\ script' = IF ValidPair \/ (pub = Absent /\ sk = Absent) THEN "done" ELSE "halted"
  /\ UNCHANGED <<pub, sk, pc, mine, given, raced, failed>>

-----------------------------------------------------------------------------
Crash(s) ==
  /\ pc[s] \notin {"down", "exited"}
  /\ Goto(s, "down") /\ Holds(s, NoKey)
  /\ UNCHANGED <<pub, sk, script, given, raced, failed>>

RestartContainer ==
  /\ script # "none" /\ script' = "pub"
  /\ pc' = [s \in Server |-> "down"]
  /\ mine' = [s \in Server |-> NoKey]
  /\ UNCHANGED <<pub, sk, given, raced, failed>>

GenSk(s) ==
  Open(s) \/ Read(s) \/ CreatePub(s) \/ WritePub(s) \/ CreateSk(s) \/ WriteSk(s)

UpReal == PutPub \/ PutSk \/ Verdict

KeyNext ==
  \/ UpReal \/ RestartContainer
  \/ \E s \in Server : Start(s) \/ GenSk(s) \/ NoFile(s) \/ Crash(s)

KeySpec == KeyInit /\ [][KeyNext]_keyVars

\* Processes run, and the supervisor starts what has ended.
KeyFairness ==
  /\ WF_keyVars(UpReal)
  /\ \A s \in Server : WF_keyVars(Start(s)) /\ WF_keyVars(GenSk(s))

KeyFairSpec == KeySpec /\ KeyFairness

-----------------------------------------------------------------------------
(* Properties. *)

\* Types; who writes files has a key to write.
KeyTypeOK ==
  /\ pub \in Content /\ sk \in Content
  /\ pc \in [Server -> Pc] /\ mine \in [Server -> Key \cup {NoKey}]
  /\ script \in Script /\ given \subseteq {"pub", "priv"}
  /\ raced \in BOOLEAN /\ failed \in BOOLEAN
  /\ \A s \in Server : pc[s] \in Generating => mine[s] \in Key

\* What is handed to clients is the file id_ed25519.pub: every server serves
\* with the key of the two files, however often processes and container died
\* in the middle, unless two servers generated at once or a file failed.
ServedAsPublished ==
  raced \/ failed \/
    \A s \in Server : pc[s] = "serving" => ValidPair /\ mine[s] = sk

\* Once there is a private key it is for good: no start of a server or of the
\* container replaces it, except where two servers generated at once.
KeyIsForGood == [][~raced /\ sk \in Key => UNCHANGED sk]_keyVars

Dies == (\E s \in Server : Crash(s)) \/ RestartContainer

\* When nothing dies any more all servers come to serve, also those that met
\* an unfinished file, unless the script or an empty private key stops them.
Recovers ==
  <>[][~Dies]_keyVars /\ <>[](sk # Empty /\ script # "halted")
     => <>[](\A s \in Server : pc[s] = "serving")
=============================================================================
