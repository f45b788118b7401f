----------------------------- MODULE ConfigFile -----------------------------
(***************************************************************************)
(* The configuration file and the invocations of f2p that share it: main's *)
(* choice of mode, Load with its defaults and limits, ValidateConfig, the  *)
(* interactive generation, --change-pwd, --regenerate-id, the Save of      *)
(* every server start, and the user's editor.                              *)
(*                                                                         *)
(* Nothing locks the file, and os.WriteFile truncates before it writes: an *)
(* invocation may act on a copy that is out of date, and a crash or a full *)
(* disk leaves a prefix of what was to be written.                         *)
(***************************************************************************)
EXTENDS Integers, Sequences

CONSTANTS
    Procs,     \* invocations of the program that may overlap
    Passwords, \* passwords users type
    Zstds,     \* zstd values users write: [min, chunk, level]
    MaxKeys,   \* model bound: identities generated
    MaxEdits,  \* model bound: edits of the file
    MaxRuns    \* model bound: invocations

Unset == -1000000   \* a TOML key that is not in the file

ASSUME ConfigAssumption ==
    /\ "" \notin Passwords
    /\ MaxKeys \in Nat /\ MaxEdits \in Nat /\ MaxRuns \in Nat
    /\ Zstds \subseteq [min : Int, chunk : Int, level : Int]

VARIABLES
    cfg,     \* what the last write of the file was to contain
    upto,    \* how many lines of it are there; Absent: there is no file
    cut,     \* the file ends or continues in the middle of a line
    settled, \* the program wrote the whole file, and nobody edited it
    pc,      \* where each invocation is
    op,      \* what it was asked to do
    mem,     \* its copy of the configuration
    stale,   \* the file was written since that copy was loaded
    keys,    \* identities generated so far
    edits, runs

fileVars == <<cfg, upto, cut, settled>>
vars == <<fileVars, pc, op, mem, stale, keys, edits, runs>>

\* One service stands for all.  A key n is the private key, and as "id" the
\* peer ID, of the n-th identity; 0 and "" are empty.
NoZstd == [min |-> Unset, chunk |-> Unset, level |-> Unset]

Zero == [server |-> FALSE, key |-> 0, id |-> 0, serverID |-> FALSE, hash |-> "",
         compress |-> "unset", name |-> FALSE, target |-> FALSE, password |-> "",
         protocol |-> FALSE, enabled |-> FALSE, zstd |-> NoZstd]

\* Mutant: the identity is written last.
MutWriteOrder == <<"server", "serverID", "hash", "compress", "name", "target",
                   "password", "protocol", "enabled", "zstd", "key", "id">>

\* The order of the lines, which TOML and the structs of Save give.
WriteOrder == <<"server", "key", "id", "serverID", "hash", "compress", "name",
                "target", "password", "protocol", "enabled", "zstd">>

Full == Len(WriteOrder)
Absent == -1

Init ==
    /\ cfg = Zero /\ upto = Absent /\ cut = FALSE /\ settled = FALSE
    /\ pc = [p \in Procs |-> "idle"]
    /\ op = [p \in Procs |-> "run"]
    /\ mem = [p \in Procs |-> Zero]
    /\ stale = [p \in Procs |-> FALSE]
    /\ keys = 0 /\ edits = 0 /\ runs = 0

-----------------------------------------------------------------------------
(* Load *)

Clamp(x, lo, hi) == IF x < lo THEN lo ELSE IF x > hi THEN hi ELSE x

OrDefault(x, d) == IF x = Unset THEN d ELSE x

\* Mutant: the level is not limited.
MutNormalZstd(z) ==
    [min |-> Clamp(OrDefault(z.min, 256), 32, 2048),
     chunk |-> Clamp(OrDefault(z.chunk, 32), 8, 128),
     level |-> OrDefault(z.level, 20)]

\* Defaults and limits; the smallest size to compress stays below a chunk.
NormalZstd(z) ==
    LET chunk == Clamp(OrDefault(z.chunk, 32), 8, 128)
        min   == Clamp(OrDefault(z.min, 256), 32, 2048)
    IN  [min |-> IF min >= chunk * 1024 THEN Clamp(chunk * 1024 - 1, 32, min)
                 ELSE min,
         chunk |-> chunk,
         level |-> Clamp(OrDefault(z.level, 20), 1, 20)]

\* ConfigureZstdParams, called with them when a server or a client starts.
Configured(z) ==
    LET chunk == IF z.chunk <= 0 THEN 32 ELSE z.chunk
        min   == IF z.min <= 0 THEN 256 ELSE z.min
    IN  [z EXCEPT !.chunk = chunk,
                  !.min = IF min >= chunk * 1024 THEN Clamp(chunk * 1024 - 1, 32, min)
                          ELSE min]

\* What is written is what Decode finds; the rest is empty.
Decoded ==
    [f \in DOMAIN cfg |->
        IF \E i \in 1 .. upto : WriteOrder[i] = f THEN cfg[f] ELSE Zero[f]]

Loaded ==
    [Decoded EXCEPT
        !.compress = IF Decoded.server /\ @ = "unset" THEN "on"
                     ELSE IF @ = "unset" THEN "off" ELSE @,
        !.zstd = NormalZstd(@)]

\* ReadFile and Decode succeed.  A file that ends within a string, a list or a
\* word is rejected; one that ends within a number is not, see TornZstd.
Loads == upto # Absent /\ ~cut

-----------------------------------------------------------------------------
(* ValidateConfig *)

Valid(c) == c.name /\ c.target /\ c.protocol /\ (~c.server => c.serverID)

\* A server without an identity gets one.
NeedsIdentity(c) == c.server /\ (c.key = 0 \/ c.id = 0)

WithIdentity(c, k) == [c EXCEPT !.key = k, !.id = k]

-----------------------------------------------------------------------------
(* main *)

Goes(p, state) == pc' = [pc EXCEPT ![p] = state]

\* The invocation is over or, a server, no longer concerned with the file.
Ends(p) ==
    /\ Goes(p, "idle")
    /\ op' = [op EXCEPT ![p] = "run"]
    /\ mem' = [mem EXCEPT ![p] = Zero]

\* Nothing to load: --generate, or a first run without a file.
StartsGenerating(p, o) ==
    /\ o = "generate" \/ (o = "run" /\ upto = Absent)
    /\ op' = [op EXCEPT ![p] = "generate"]
    /\ Goes(p, "ask")
    /\ UNCHANGED <<mem, keys>>

\* A run: a valid server saves what it has loaded before it starts.  A client
\* never writes the file.
StartsRunning(p, o) ==
    /\ o = "run" /\ Loads /\ Valid(Loaded)
    /\ op' = [op EXCEPT ![p] = "run"]
    /\ Loaded.server
    /\ Goes(p, "save")
    /\ IF NeedsIdentity(Loaded)
       THEN /\ keys < MaxKeys
            /\ keys' = keys + 1
            /\ mem' = [mem EXCEPT ![p] = WithIdentity(Loaded, keys + 1)]
       ELSE mem' = [mem EXCEPT ![p] = Loaded] /\ keys' = keys

\* --change-pwd and --regenerate-id: servers only, and they ask first.
StartsChanging(p, o) ==
    /\ o \in {"passwd", "regen"} /\ Loads /\ Loaded.server
    /\ op' = [op EXCEPT ![p] = o]
    /\ Goes(p, "ask")
    /\ mem' = [mem EXCEPT ![p] = Loaded]
    /\ keys' = keys

\* Everything else ends with an error and changes nothing.
Invoke(p, o) ==
    /\ pc[p] = "idle"
    /\ runs < MaxRuns
    /\ runs' = runs + 1
    /\ \/ StartsGenerating(p, o)
       \/ StartsRunning(p, o)
       \/ StartsChanging(p, o)
    /\ stale' = [stale EXCEPT ![p] = FALSE]
    /\ UNCHANGED <<fileVars, edits>>

-----------------------------------------------------------------------------
(* The answers *)

\* bcrypt refuses passwords of more than 72 bytes; HashPassword drops the
\* error and returns "".
HashPassword(w) == IF w = "long" THEN "" ELSE w

\* The configuration GenerateInteractiveConfig makes: two example services,
\* switched off, for a server or a client.
NewConfig(k, server, hash) ==
    [Zero EXCEPT !.server = server, !.key = k, !.id = k, !.serverID = ~server,
                 !.hash = hash, !.compress = IF server THEN "on" ELSE "unset",
                 !.name = TRUE, !.target = TRUE,
                 !.password = IF server THEN "123" ELSE "",
                 !.protocol = TRUE,
                 !.zstd = [min |-> 256, chunk |-> 32, level |-> 20]]

\* A password, or "" for none.
Answers == Passwords \cup {"", "long"}

GenerateAnswered(p) ==
    /\ op[p] = "generate" /\ keys < MaxKeys
    /\ keys' = keys + 1
    /\ \/ \E w \in Answers :
             mem' = [mem EXCEPT ![p] = NewConfig(keys + 1, TRUE, HashPassword(w))]
       \/ mem' = [mem EXCEPT ![p] = NewConfig(keys + 1, FALSE, "")]

PasswordAnswered(p) ==
    /\ op[p] = "passwd"
    /\ \E w \in Answers : mem' = [mem EXCEPT ![p].hash = HashPassword(w)]
    /\ keys' = keys

\* Mutant: the rest of the configuration is made anew.
MutRegenerateAnswered(p) ==
    /\ op[p] = "regen" /\ keys < MaxKeys
    /\ keys' = keys + 1
    /\ mem' = [mem EXCEPT ![p] = NewConfig(keys + 1, TRUE, mem[p].hash)]

RegenerateAnswered(p) ==
    /\ op[p] = "regen" /\ keys < MaxKeys
    /\ keys' = keys + 1
    /\ mem' = [mem EXCEPT ![p] = WithIdentity(mem[p], keys + 1)]

Answer(p) ==
    /\ pc[p] = "ask"
    /\ GenerateAnswered(p) \/ PasswordAnswered(p) \/ RegenerateAnswered(p)
    /\ Goes(p, "save")
    /\ UNCHANGED <<fileVars, op, stale, edits, runs>>

\* Refused, mistyped, interrupted: nothing is written.
Cancel(p) ==
    /\ pc[p] = "ask"
    /\ Ends(p)
    /\ UNCHANGED <<fileVars, stale, keys, edits, runs>>

-----------------------------------------------------------------------------
(* Save *)

OthersStale(p) == stale' = [q \in Procs |-> stale[q] \/ (q # p /\ pc[q] # "idle")]

\* WriteFile opens the file and truncates it ...
SaveTruncates(p) ==
    /\ pc[p] = "save"
    /\ Goes(p, "write")
    /\ upto' = 0 /\ cut' = FALSE
    /\ OthersStale(p)
    /\ UNCHANGED <<cfg, settled, op, mem, keys, edits, runs>>

\* ... or cannot open it, of which a server only warns, or is stopped first,
SaveFails(p) ==
    /\ pc[p] = "save"
    /\ Ends(p)
    /\ UNCHANGED <<fileVars, stale, keys, edits, runs>>

\* Mutant: Save leaves a disabled compression out.
MutSaved(c) == [c EXCEPT !.compress = IF @ = "off" THEN "unset" ELSE @]

\* What Save encodes: a client's file has no compress line, a server's no
\* section of the client.
Saved(c) == [c EXCEPT !.compress = IF c.server THEN @ ELSE "unset",
                      !.serverID = ~c.server /\ @]

\* ... and writes it all.  Over what another invocation has written since the
\* truncation, the end of that may remain, which Decode rejects.
SaveWrites(p) ==
    /\ pc[p] = "write"
    /\ Ends(p)
    /\ cfg' = Saved(mem[p]) /\ upto' = Full
    /\ cut' \in IF upto = 0 THEN {FALSE} ELSE BOOLEAN
    /\ settled' = ~cut'
    /\ OthersStale(p)
    /\ UNCHANGED <<keys, edits, runs>>

\* The three zstd values are one line of the model, the last; a cut within the
\* last number, of at most three digits, leaves its leading ones.
TornZstd(z) ==
    {[z EXCEPT !.chunk = c] : c \in {z.chunk \div 10, z.chunk \div 100} \ {0}}

\* A prefix reaches the disk: whole lines, lines up to a number, or something that
\* Decode rejects.
Tears(p) ==
    /\ settled' = FALSE
    /\ \/ /\ cfg' = Saved(mem[p])
          /\ \/ upto = 0 /\ upto' \in 0 .. Full - 1 /\ cut' = FALSE
             \/ upto' = 0 /\ cut' = TRUE
       \/ /\ upto = 0 /\ upto' = Full /\ cut' = FALSE
          /\ \E z \in TornZstd(mem[p].zstd) :
                cfg' = [Saved(mem[p]) EXCEPT !.zstd = z]
    /\ OthersStale(p)

\* The disk is full, or the program or the machine crashes.
WriteFails(p) ==
    /\ pc[p] = "write"
    /\ Tears(p)
    /\ Ends(p)
    /\ UNCHANGED <<keys, edits, runs>>

-----------------------------------------------------------------------------
(* The user's editor: services, passwords and limits may be changed, and a
   server's file written by hand, without an identity. *)

Written(c) ==
    /\ edits < MaxEdits
    /\ edits' = edits + 1
    /\ cfg' = c /\ upto' = Full /\ cut' = FALSE /\ settled' = FALSE
    /\ stale' = [p \in Procs |-> stale[p] \/ pc[p] # "idle"]
    /\ UNCHANGED <<pc, op, mem, keys, runs>>

Edit ==
    /\ upto = Full /\ ~cut
    /\ \/ Written([cfg EXCEPT !.enabled = TRUE, !.compress = "off"])
       \/ \E z \in Zstds : Written([cfg EXCEPT !.zstd = z])
       \/ Written([cfg EXCEPT !.protocol = FALSE])

ByHand ==
    \E w \in Passwords, z \in Zstds :
        Written([Zero EXCEPT !.server = TRUE, !.name = TRUE, !.target = TRUE,
                             !.password = w, !.protocol = TRUE, !.enabled = TRUE,
                             !.zstd = z])

-----------------------------------------------------------------------------
Next ==
    \/ \E p \in Procs :
          \/ \E o \in {"run", "generate", "passwd", "regen"} : Invoke(p, o)
          \/ Answer(p) \/ Cancel(p)
          \/ SaveTruncates(p) \/ SaveFails(p) \/ SaveWrites(p)
          \/ WriteFails(p)
    \/ Edit \/ ByHand

Spec == Init /\ [][Next]_vars

-----------------------------------------------------------------------------
(* Properties *)

Configs == [server : BOOLEAN, key : 0 .. MaxKeys, id : 0 .. MaxKeys,
            serverID : BOOLEAN, hash : Passwords \cup {""},
            compress : {"unset", "on", "off"}, name : BOOLEAN, target : BOOLEAN,
            password : Passwords \cup {"", "123"}, protocol : BOOLEAN,
            enabled : BOOLEAN, zstd : [min : Int, chunk : Int, level : Int]]

\* The ranges the header of the file gives for the zstd values.
InRange(z) ==
    /\ z.min \in 32 .. 2048 /\ z.chunk \in 8 .. 128 /\ z.level \in 1 .. 20
    /\ z.min < z.chunk * 1024

\* Type invariant; the zstd values in use are those of the configuration, in
\* their ranges.
TypeOK ==
    /\ cfg \in Configs /\ upto \in Absent .. Full
    /\ cut \in BOOLEAN /\ settled \in BOOLEAN
    /\ pc \in [Procs -> {"idle", "ask", "save", "write"}]
    /\ op \in [Procs -> {"run", "generate", "passwd", "regen"}]
    /\ mem \in [Procs -> Configs]
    /\ \A p \in Procs : pc[p] \in {"save", "write"} =>
            InRange(mem[p].zstd) /\ Configured(mem[p].zstd) = mem[p].zstd
    /\ stale \in [Procs -> BOOLEAN]
    /\ keys \in 0 .. MaxKeys /\ edits \in 0 .. MaxEdits
    /\ runs \in 0 .. MaxRuns

\* A file that a crash or a full disk has cut short is refused or safe: a
\* server that starts from it has the identity and the server password that
\* were to be written, and a service it offers its own password.
NeverLoosened ==
    [][\A p \in Procs :
         (pc[p] = "idle" /\ pc'[p] = "save") =>
            /\ cfg.key # 0 => mem'[p].key = cfg.key
            /\ mem'[p].hash = cfg.hash
            /\ mem'[p].enabled => (cfg.enabled /\ mem'[p].password = cfg.password)
      ]_vars

\* Restarts change nothing: a server that starts from a file the program has
\* written, and that has an identity, saves the same file.
FileSettles ==
    [][\A p \in Procs :
         (/\ pc[p] = "write" /\ pc'[p] = "idle" /\ op[p] = "run" /\ ~stale[p]
          /\ settled /\ settled' /\ ~NeedsIdentity(cfg)) => cfg' = cfg
      ]_vars

\* What an operation may change.
Changes(o) == IF o = "passwd" THEN {"hash"} ELSE {"key", "id"}

\* "Will change server's peerID but keep other configs": what an invocation
\* saves is what is in the file but for its own fields, unless the file was
\* written after it had been loaded.
OthersKept ==
    [][\A p \in Procs :
         (pc[p] = "save" /\ pc'[p] = "write" /\ op[p] # "generate" /\ ~stale[p])
            => \A f \in DOMAIN cfg \ Changes(op[p]) : mem[p][f] = Loaded[f]
      ]_vars

=============================================================================
