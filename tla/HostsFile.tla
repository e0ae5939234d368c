------------------------------ MODULE HostsFile ------------------------------
(***************************************************************************)
(* azbridge hosts apply and remove (hosts.rs).  Each configuration has a   *)
(* tag, and under it a block of the hosts file that maps its hostnames to  *)
(* loopback addresses; lines of others for these hostnames are disabled,   *)
(* with the tag, and restored with the block's removal.  A command reads   *)
(* the file, loads its configuration, which may ask the broker, and writes *)
(* the file as a whole; commands and the user's editor may overlap.        *)
(***************************************************************************)
EXTENDS Integers, Sequences, FiniteSets

CONSTANTS
    Procs,      \* commands at work at the same time
    Tags,       \* of the configurations
    Names,      \* hostnames, in their order: 1 .. n
    SLOTS,      \* loopback addresses 127.77.x.y: 1 .. SLOTS (65534)
    fnv1a32,    \* the first slot of each hostname, as its hash gives it
    MaxUser,    \* lines the user adds
    MaxWrites   \* times the file is written

None == "none"

\* Every hostname has its first slot, and the slots are not used up.
ASSUME FileAssumption ==
    /\ SLOTS \in Nat /\ fnv1a32 \in Seq(1 .. SLOTS) /\ Len(fnv1a32) <= SLOTS
    /\ Names = 1 .. Len(fnv1a32)
    /\ IsFiniteSet(Tags) /\ None \notin Tags

Own == 0        \* an address in the user's lines

\* A line maps a name to an address, or marks the begin or the end of a tag's block;
\* off is the tag under which it is disabled.
Line(kind, tag, name, ip) == [kind |-> kind, tag |-> tag, name |-> name, ip |-> ip, off |-> None]
Marker(kind, tag) == Line(kind, tag, 0, 0)

Done == [pc |-> "done", action |-> "remove", tag |-> None, names |-> {},
         replace |-> FALSE, text |-> <<>>]

VARIABLES
    file,       \* the lines of the hosts file
    user,       \* the user's lines, in order
    cmd,        \* what each process is doing
    writes,     \* times the file was written
    unsafe      \* a write was cut off, or undid a change since the file was read

fileVars == <<file, user, cmd, writes, unsafe>>

FileInit ==
    /\ file = <<>>
    /\ user = <<>>
    /\ cmd = [p \in Procs |-> Done]
    /\ writes = 0
    /\ unsafe = FALSE

-----------------------------------------------------------------------------
(* Addresses. *)

\* Probing from a name's own slot for one that is not used.
slot(name, used) ==
    LET at(d) == 1 + ((fnv1a32[name] - 1 + d) % SLOTS)
        free == {d \in 0 .. SLOTS - 1 : at(d) \notin used}
    IN  at(CHOOSE d \in free : \A e \in free : d <= e)

\* allocate: addresses that were applied before are kept, the first of several names
\* with the same one; then the others get theirs in order.
allocate(names, existing) ==
    LET known == names \cap DOMAIN existing
        kept == {n \in known : \A m \in known : m < n => existing[m] # existing[n]}
        addresses[n \in 0 .. Len(fnv1a32)] ==
            IF n = 0 THEN [m \in kept |-> existing[m]]
            ELSE LET before == addresses[n - 1]
                     used == {before[m] : m \in DOMAIN before}
                 IN  IF n \in names \ DOMAIN before
                       THEN [m \in DOMAIN before \cup {n} |-> IF m = n THEN slot(n, used) ELSE before[m]]
                       ELSE before
    IN  addresses[Len(fnv1a32)]

-----------------------------------------------------------------------------
(* The text. *)

\* The lines between a tag's begin marker and its end marker, or the end of the file.
inside(text, tag) ==
    {i \in DOMAIN text : \E b \in 1 .. i - 1 :
        /\ text[b] = Marker("begin", tag)
        /\ \A e \in b + 1 .. i : text[e] # Marker("end", tag)}

\* existing_entries: the addresses of a tag's block; a disabled line in it has none.
entries(text, tag) == {i \in inside(text, tag) : text[i].kind = "alias" /\ text[i].off = None}
existing_entries(text, tag) ==
    [n \in {text[i].name : i \in entries(text, tag)} |->
        text[CHOOSE i \in entries(text, tag) :
                /\ text[i].name = n
                /\ \A j \in entries(text, tag) : text[j].name = n => j <= i].ip]

\* The members of S among 1 .. n, in their order.
InOrder(S, n) ==
    LET upto[i \in 0 .. n] ==
            IF i = 0 THEN <<>> ELSE IF i \in S THEN Append(upto[i - 1], i) ELSE upto[i - 1]
    IN  upto[n]

\* What is left of the text without the lines of some places.
Without(text, places) ==
    LET kept == InOrder(DOMAIN text \ places, Len(text))
    IN  [k \in DOMAIN kept |-> text[kept[k]]]

block(text, tag) ==
    inside(text, tag) \cup {i \in DOMAIN text : text[i] \in {Marker("begin", tag), Marker("end", tag)}}

\* The bug: the block goes, but what it had disabled stays so.
remove_block_only(text, tag) == Without(text, block(text, tag))

\* remove_block: the tag's block goes, and what it had disabled is restored.
remove_block(text, tag) ==
    LET left == Without(text, block(text, tag))
    IN  [k \in DOMAIN left |-> IF left[k].off = tag THEN [left[k] EXCEPT !.off = None] ELSE left[k]]

\* The bug: other blocks are left alone.
conflicts_outside_blocks(text, names) ==
    {i \in DOMAIN text : text[i].kind = "user" /\ text[i].off = None /\ text[i].name \in names}

\* conflicts: the active lines for some of the names, those in other blocks too.
conflicts(text, names) ==
    {i \in DOMAIN text : /\ text[i].kind \in {"user", "alias"}
                         /\ text[i].off = None /\ text[i].name \in names}

\* merge_block: the tag's block is replaced, or added at the end.
merge_block(text, tag, addresses) ==
    LET base == remove_block(text, tag)
        found == conflicts(base, DOMAIN addresses)
        names == InOrder(DOMAIN addresses, Len(fnv1a32))
        aliases == [k \in DOMAIN names |-> Line("alias", tag, names[k], addresses[names[k]])]
    IN  [i \in DOMAIN base |-> IF i \in found THEN [base[i] EXCEPT !.off = tag] ELSE base[i]]
        \o <<Marker("begin", tag)>> \o aliases \o <<Marker("end", tag)>>

-----------------------------------------------------------------------------
(* The commands. *)

\* The file is read; apply then loads the configuration, which takes its time.
read(p, action, tag, names, replace_existing) ==
    /\ cmd[p] = Done
    /\ names = {} <=> action = "remove"
    /\ cmd' = [cmd EXCEPT ![p] = [pc |-> "loading", action |-> action, tag |-> tag, names |-> names,
                                  replace |-> replace_existing, text |-> file]]
    /\ UNCHANGED <<file, user, writes, unsafe>>

After(c) ==
    IF c.action = "remove" THEN remove_block(c.text, c.tag)
    ELSE merge_block(c.text, c.tag, allocate(c.names, existing_entries(c.text, c.tag)))

\* Something is left to write, and apply without --replace-existing met no conflict.
Writes(p) ==
    LET c == cmd[p]
    IN  /\ c # Done
        /\ c.action = "remove" \/ c.replace \/ conflicts(remove_block(c.text, c.tag), c.names) = {}
        /\ After(c) # c.text
        /\ writes < MaxWrites
        /\ writes' = writes + 1
        /\ cmd' = [cmd EXCEPT ![p] = Done]
        /\ user' = user

\* write_hosts writes the file as a whole, from what was read.
write_hosts(p) ==
    /\ Writes(p)
    /\ file' = After(cmd[p])
    /\ unsafe' = (unsafe \/ file # cmd[p].text)

\* The process is killed or the disk is full in the middle of it.
write_cut(p) ==
    /\ Writes(p)
    /\ \E n \in 0 .. Len(After(cmd[p])) - 1 : file' = SubSeq(After(cmd[p]), 1, n)
    /\ unsafe' = TRUE

\* Nothing is written: print, a dry run, a conflict, no change, a configuration that
\* cannot be loaded, no permission, a kill.
ends(p) ==
    /\ cmd[p] # Done
    /\ cmd' = [cmd EXCEPT ![p] = Done]
    /\ UNCHANGED <<file, user, writes, unsafe>>

\* The user adds a line at the end of the file.
edit(name) ==
    /\ Len(user) < MaxUser
    /\ user' = Append(user, Line("user", None, name, Own))
    /\ file' = Append(file, Line("user", None, name, Own))
    /\ UNCHANGED <<cmd, writes, unsafe>>

run_hosts(p) ==
    \/ \E tag \in Tags : read(p, "remove", tag, {}, FALSE)
    \/ \E tag \in Tags, names \in SUBSET Names, replace_existing \in BOOLEAN :
            read(p, "apply", tag, names, replace_existing)
    \/ write_hosts(p) \/ write_cut(p) \/ ends(p)

FileNext == (\E p \in Procs : run_hosts(p)) \/ (\E name \in Names : edit(name))

FileSpec == FileInit /\ [][FileNext]_fileVars

-----------------------------------------------------------------------------
(* Properties. *)

\* As long as no write was cut off and none started from a file that has changed since,
\* the file has no line of the user twice, and removing all blocks leaves the user's lines,
\* in their order and all active: whichever order the tags were applied and disabled each
\* other's lines in, and whichever order they are removed in.
UserLinesKept ==
    LET n == Cardinality(Tags)
    IN  ~unsafe =>
            /\ Len(InOrder({i \in DOMAIN file : file[i].kind = "user"}, Len(file))) = Len(user)
            /\ \A order \in [1 .. n -> Tags] :
                  LET Removed[k \in 0 .. n] ==
                          IF k = 0 THEN file ELSE remove_block(Removed[k - 1], order[k])
                  IN  Tags = {order[k] : k \in 1 .. n} => Removed[n] = user

\* After an apply every name of it is mapped by its own block alone, whatever the user
\* and other tags have for the name, each to an address of its own.  Unless a write was
\* cut off before, a name that an active line of the block mapped keeps its address, however
\* the names that come and go hash.
ApplyMaps ==
    [][\A p \in Procs :
        LET c == cmd[p]
            mine == {i \in DOMAIN file' : file'[i].off = None /\ file'[i].name \in c.names}
            before == existing_entries(c.text, c.tag)
        IN  c.action = "apply" /\ writes' > writes /\ cmd'[p] = Done /\ file' = After(c) =>
                /\ \A i \in mine : file'[i].kind = "alias" /\ file'[i].tag = c.tag
                /\ \A n \in c.names : \E i \in mine : file'[i].name = n
                /\ \A i, j \in mine : file'[i].ip = file'[j].ip => i = j
                /\ ~unsafe => \A i \in mine : file'[i].name \in DOMAIN before =>
                        file'[i].ip = before[file'[i].name]
      ]_fileVars

\* "Addresses recorded in this tag's block, so re-applying never moves them": that the block
\* maps a name by a line which another tag has disabled makes no difference.
ReapplyingNeverMoves ==
    [][\A p \in Procs :
        LET c == cmd[p]
            recorded == {i \in inside(c.text, c.tag) : c.text[i].kind = "alias"}
        IN  ~unsafe /\ c.action = "apply" /\ writes' > writes /\ cmd'[p] = Done /\ file' = After(c) =>
                \A i \in DOMAIN file', j \in recorded :
                    file'[i].kind = "alias" /\ file'[i].tag = c.tag /\ file'[i].name = c.text[j].name
                        => file'[i].ip = c.text[j].ip
      ]_fileVars
=============================================================================
