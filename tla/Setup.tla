------------------------------- MODULE Setup -------------------------------
(***************************************************************************)
(* The boot order of the board: the 4k flash sector that holds the CBFS    *)
(* file "bootorder", the setup payload that edits it                       *)
(* (payloads/sortbootorder/sortbootorder.c), and what the next boot makes  *)
(* of it (romstage.c: the serial console; mainboard.c: whether setup       *)
(* itself can be started).  The power may fail at any point, also between  *)
(* erasing the sector and writing its last word.                           *)
(*                                                                         *)
(* A line is a record: its tag (a device, or "pxen" / "scon"), the digit   *)
(* after the tag, and whether a carriage return precedes its newline (the  *)
(* lines of the file shipped in the image have one, those of bootorder_def *)
(* do not).  The sector holds a packed list of which the first `good'      *)
(* bytes were programmed; every byte after them is 0xFF.                   *)
(***************************************************************************)
EXTENDS Integers, Sequences, Functions, FiniteSetsExt

CONSTANTS
    Devices,     \* the lines of bootorder_def, in order; a device is its letter
    LineLen,     \* bytes of a device's line in bootorder_def, newline included
    MaxLosses,   \* bound: power failures explored
    MaxSaves     \* bound: exits with save explored

NUL == "nul"                       \* the initial value of every id[]
Tagged == {"pxen", "scon"}
Word == 4                          \* bytes per flash->write, sizeof(u32)
TagLen == 4                        \* strlen("pxen"), strlen("scon")

ASSUME DevicesAssumption ==
    /\ Devices \in Seq(Range(Devices)) /\ Devices # <<>> /\ IsInjective(Devices)
    /\ Range(Devices) \cap (Tagged \cup {NUL}) = {}
    /\ LineLen \in [Range(Devices) -> Nat]
ASSUME BoundAssumption == MaxLosses \in Nat /\ MaxSaves \in Nat

Line == [tag : Range(Devices) \cup Tagged, digit : 0..1, cr : 0..1]

bootlist_def == [i \in DOMAIN Devices |-> [tag |-> Devices[i], digit |-> 0, cr |-> 0]]

Shipped ==
    [i \in DOMAIN Devices |-> [bootlist_def[i] EXCEPT !.cr = 1]]
        \o <<[tag |-> "pxen", digit |-> 1, cr |-> 1], [tag |-> "scon", digit |-> 1, cr |-> 1]>>

VARIABLES
    pc,             \* "boot", "prompt" (SeaBIOS), "menu", "probe", "erase", "write"
    flash,          \* the bootorder sector: [lines, good]
    button,         \* the case switch grounds GPIO_187 during this boot
    console,        \* debug_level in CMOS is not 0: COM1 is on
    bootlist, id,   \* the payload's list and the letter of each of its lines
    serial_toggle, ipxe_toggle,
    nvram_pos,      \* the word save_flash writes next
    losses, saves,
    stored,         \* history: the list of the last save that completed
    asked,          \* history: the two toggles at that save
    torn            \* history: a later save was cut by a power failure

vars == <<pc, flash, button, console, bootlist, id, serial_toggle, ipxe_toggle,
          nvram_pos, losses, saves, stored, asked, torn>>

menuVars == <<bootlist, id, serial_toggle, ipxe_toggle>>

----------------------------------------------------------------------------
(* The packed file *)

Bytes(l) ==
    (IF l.tag \in Tagged THEN TagLen + 2 ELSE LineLen[l.tag]) + l.cr

\* Where each line ends in the packed file, from 0 for no line.
Offsets(lines) ==
    LET sum[j \in 0..Len(lines)] == IF j = 0 THEN 0 ELSE sum[j - 1] + Bytes(lines[j])
    IN  sum

\* Bytes of the first k lines, packed.
Offset(lines, k) == Offsets(lines)[k]

\* save_flash's i: every byte of the lines, and the closing NUL.
PackedLen(lines) == Offset(lines, Len(lines)) + 1

\* The mask 0xFC of save_flash keeps 8 bits: the board's file packs to 220 bytes.
ASSUME FitAssumption == PackedLen(Shipped) < 256

\* The scan for a NUL ends inside the file.
Terminated(f) == f.good >= PackedLen(f.lines)

\* The lines whose newline was programmed.  Behind the last of them the scan
\* meets the NUL, or runs through 0xFF until the character count aborts it.
fetch_file_from_cbfs(f) ==
    LET whole == {k \in 0..Len(f.lines) : Offset(f.lines, k) <= f.good}
    IN  SubSeq(f.lines, 1, Max(whole))

\* The line whose first n bytes a search for its tag can see.
Found(f, tag, n) ==
    {k \in DOMAIN f.lines : f.lines[k].tag = tag /\ Offset(f.lines, k - 1) + n <= f.good}

\* cbfs_find_string("scon1", "bootorder") in romstage.
scon1(f) == \E k \in Found(f, "scon", TagLen + 1) : f.lines[k].digit = 1

\* cbfs_find_string(tag), the string after it converted with strtoul.  When the
\* tag is missing the code converts what lies at address 4: any value; no line
\* then carries the tag, so no save stores it.
InitialToggle(f, tag) ==
    LET seen == Found(f, tag, TagLen) IN
    IF seen = {} THEN 0..1
    ELSE {IF k \in Found(f, tag, TagLen + 1) THEN f.lines[k].digit ELSE 0 : k \in seen}

----------------------------------------------------------------------------
(* The payload's operations on its list *)

\* strcmp_printable_char finds a device line equal to its default whatever the
\* line ending; a line equal to none of them keeps the letter its slot had.
int_ids(lines, old) ==
    [i \in DOMAIN old |->
        IF i \in DOMAIN lines /\ lines[i].tag \in Range(Devices) THEN lines[i].tag ELSE old[i]]

get_line_number(lines, ids, key) ==
    LET hit == {i \in DOMAIN lines : ids[i] = key}
    IN  IF hit = {} THEN 1 ELSE Min(hit)

\* Mutant of ToTop: exchanges the two lines.
ToTop_swap(s, n) == [i \in DOMAIN s |-> CASE i = 1 -> s[n] [] i = n -> s[1] [] OTHER -> s[i]]

\* Position n goes on top and those above it move down one; n = 1 changes nothing.
ToTop(s, n) == [i \in DOMAIN s |-> CASE i = 1 -> s[n] [] i \in 2..n -> s[i - 1] [] OTHER -> s[i]]

restore(lines) ==
    [i \in DOMAIN lines |-> IF i \in DOMAIN bootlist_def THEN bootlist_def[i] ELSE lines[i]]

\* Mutant of update_tag_value: the tag is compared with the first line only.
update_tag_value_first(lines, tag, value) ==
    IF lines # <<>> /\ lines[1].tag = tag THEN [lines EXCEPT ![1].digit = value] ELSE lines

update_tag_value(lines, tag, value) ==
    LET hit == {i \in DOMAIN lines : lines[i].tag = tag} IN
    IF hit = {} THEN lines ELSE [lines EXCEPT ![Min(hit)].digit = value]

\* Mutant of WholeWords: a mask that also clears bit 2.
WholeWords_mask8(i) == ((i % 256) \div 8) * 8

\* The bound of save_flash's loop, i & 0xFC.
WholeWords(i) == ((i % 256) \div Word) * Word

----------------------------------------------------------------------------
Init ==
    /\ pc = "boot"
    /\ flash = [lines |-> Shipped, good |-> PackedLen(Shipped)]
    /\ button = FALSE /\ console = FALSE
    /\ bootlist = <<>> /\ id = [i \in DOMAIN Shipped |-> NUL]
    /\ serial_toggle = 0 /\ ipxe_toggle = 0
    /\ nvram_pos = 0 /\ losses = 0 /\ saves = 0
    /\ stored = Shipped /\ asked = [scon |-> 1, pxen |-> 1] /\ torn = FALSE

\* Every way back to the reset vector: the payload's memory is gone.
Reset ==
    /\ pc' = "boot"
    /\ bootlist' = <<>> /\ id' = [i \in DOMAIN Shipped |-> NUL]
    /\ serial_toggle' = 0 /\ ipxe_toggle' = 0 /\ nvram_pos' = 0
    /\ UNCHANGED <<button, console>>

\* romstage reads scon and the switch and stores debug_level accordingly.
Boot ==
    /\ pc = "boot"
    /\ button' \in BOOLEAN
    /\ console' = (scon1(flash) \/ button')
    /\ pc' = "prompt"
    /\ UNCHANGED <<flash, menuVars, nvram_pos, losses, saves, stored, asked, torn>>

\* get_mainboard_bootorder_table lists setup as bootable, or as "!", by debug_level.
SetupBootable == console

\* The payload's statics start from zero every time it is loaded.
StartSetup ==
    /\ pc = "prompt" /\ SetupBootable
    /\ bootlist' = fetch_file_from_cbfs(flash)
    /\ id' = int_ids(bootlist', [i \in DOMAIN Shipped |-> NUL])
    /\ serial_toggle' \in InitialToggle(flash, "scon")
    /\ ipxe_toggle' \in InitialToggle(flash, "pxen")
    /\ pc' = "menu"
    /\ UNCHANGED <<flash, button, console, nvram_pos, losses, saves, stored, asked, torn>>

KeyR ==
    /\ pc = "menu"
    /\ bootlist' = restore(bootlist)
    /\ id' = int_ids(bootlist', id)
    /\ UNCHANGED <<pc, flash, button, console, serial_toggle, ipxe_toggle, nvram_pos,
                   losses, saves, stored, asked, torn>>

KeyS ==
    /\ pc = "menu"
    /\ serial_toggle' = 1 - serial_toggle
    /\ UNCHANGED <<pc, flash, button, console, bootlist, id, ipxe_toggle, nvram_pos,
                   losses, saves, stored, asked, torn>>

KeyN ==
    /\ pc = "menu"
    /\ ipxe_toggle' = 1 - ipxe_toggle
    /\ UNCHANGED <<pc, flash, button, console, bootlist, id, serial_toggle, nvram_pos,
                   losses, saves, stored, asked, torn>>

\* Mutant of KeyLetter: the letters do not move with their lines.
KeyLetter_ids(key) ==
    /\ pc = "menu"
    /\ bootlist' = ToTop(bootlist, get_line_number(bootlist, id, key))
    /\ UNCHANGED <<pc, flash, button, console, id, serial_toggle, ipxe_toggle, nvram_pos,
                   losses, saves, stored, asked, torn>>

KeyLetter(key) ==
    /\ pc = "menu"
    /\ LET n == get_line_number(bootlist, id, key) IN
       /\ bootlist' = ToTop(bootlist, n)
       /\ id' = ToTop(id, n)
    /\ UNCHANGED <<pc, flash, button, console, serial_toggle, ipxe_toggle, nvram_pos,
                   losses, saves, stored, asked, torn>>

KeyE ==
    /\ pc = "menu" /\ saves < MaxSaves
    /\ bootlist' = update_tag_value(update_tag_value(bootlist, "scon", serial_toggle),
                                    "pxen", ipxe_toggle)
    /\ saves' = saves + 1
    /\ pc' = "probe"
    /\ UNCHANGED <<flash, button, console, id, serial_toggle, ipxe_toggle, nvram_pos,
                   losses, stored, asked, torn>>

KeyX ==
    /\ pc = "menu"
    /\ Reset
    /\ UNCHANGED <<flash, losses, saves, stored, asked, torn>>

\* spi_flash_probe; without a device the payload says so and resets.
Probe ==
    /\ pc = "probe"
    /\ \/ pc' = "erase" /\ UNCHANGED <<button, console, menuVars, nvram_pos>>
       \/ Reset
    /\ UNCHANGED <<flash, losses, saves, stored, asked, torn>>

Erase ==
    /\ pc = "erase"
    /\ flash' = [lines |-> bootlist, good |-> 0]
    /\ nvram_pos' = 0
    /\ pc' = "write"
    /\ UNCHANGED <<button, console, menuVars, losses, saves, stored, asked, torn>>

WriteWord ==
    /\ pc = "write" /\ nvram_pos < WholeWords(PackedLen(bootlist))
    /\ flash' = [flash EXCEPT !.good = nvram_pos + Word]
    /\ nvram_pos' = nvram_pos + Word
    /\ UNCHANGED <<pc, button, console, menuVars, losses, saves, stored, asked, torn>>

\* The rest: always sizeof(int) bytes, then the reset at 0xcf9.
WriteTail ==
    /\ pc = "write" /\ nvram_pos >= WholeWords(PackedLen(bootlist))
    /\ flash' = [flash EXCEPT !.good = nvram_pos + Word]
    /\ stored' = bootlist /\ torn' = FALSE
    /\ asked' = [scon |-> serial_toggle, pxen |-> ipxe_toggle]
    /\ Reset
    /\ UNCHANGED <<losses, saves>>

\* SeaBIOS boots a system that is restarted later.
Restart ==
    /\ pc = "prompt"
    /\ Reset
    /\ UNCHANGED <<flash, losses, saves, stored, asked, torn>>

PowerLoss ==
    /\ pc # "boot" /\ losses < MaxLosses
    /\ losses' = losses + 1
    /\ torn' = (torn \/ pc = "write")
    /\ Reset
    /\ UNCHANGED <<flash, saves, stored, asked>>

Key == KeyR \/ KeyS \/ KeyN \/ KeyE \/ KeyX \/ \E key \in Range(Devices) \cup {"z"} : KeyLetter(key)

Next == Boot \/ StartSetup \/ Key \/ Probe \/ Erase \/ WriteWord \/ WriteTail \/ Restart \/ PowerLoss

Spec == Init /\ [][Next]_vars
----------------------------------------------------------------------------
(* Properties *)

TypeOK ==
    /\ pc \in {"boot", "prompt", "menu", "probe", "erase", "write"}
    /\ flash.lines \in Seq(Line) /\ flash.good \in 0..PackedLen(Shipped) + Word
    /\ {button, console, torn} \subseteq BOOLEAN
    /\ bootlist \in Seq(Line) /\ Len(bootlist) <= Len(Shipped)
    /\ id \in [DOMAIN Shipped -> Range(Devices) \cup {NUL}]
    /\ {serial_toggle, ipxe_toggle} \subseteq 0..1
    /\ nvram_pos % Word = 0
    /\ losses \in 0..MaxLosses /\ saves \in 0..MaxSaves
    /\ stored \in Seq(Line) /\ asked \in [Tagged -> 0..1]

\* A save that ran to its end is what every later boot and every later start of
\* the payload reads, to the last line and with its terminating NUL: the word
\* loop, its mask and the four-byte tail together store every packed byte
\* (save_flash, then fetch_file_from_cbfs).
SavedListIsRead ==
    ~torn /\ pc # "write" =>
        fetch_file_from_cbfs(flash) = stored /\ Terminated(flash)

\* The switches of the menu arrive: at the boot after a completed save, COM1 is
\* on exactly when the serial console was left enabled or the case switch is
\* pressed, and the payload would start from the stored network setting
\* (update_tag_value, romstage's search for "scon1").
SettingsTakeEffect ==
    ~torn /\ pc = "prompt" =>
        /\ (\E i \in DOMAIN stored : stored[i].tag = "scon") => console = (asked.scon = 1 \/ button)
        /\ (\E i \in DOMAIN stored : stored[i].tag = "pxen") => InitialToggle(flash, "pxen") = {asked.pxen}

\* The letter a line answers to is that of its device, and the two setting lines
\* answer to none, after any sequence of moves, restores, saves and power
\* failures (id[] is moved separately from the lines).
LettersFollowLines ==
    pc = "menu" => \A i \in DOMAIN bootlist :
        id[i] = IF bootlist[i].tag \in Range(Devices) THEN bootlist[i].tag ELSE NUL

\* No key sequence doubles or drops a line: while the file holds the full list,
\* the menu shows each device and each setting once; a list that a power failure
\* during a save made shorter still holds no line twice.
EveryLineOnce ==
    /\ \A i, j \in DOMAIN bootlist : bootlist[i].tag = bootlist[j].tag => i = j
    /\ pc = "menu" /\ ~torn /\ Len(stored) = Len(Shipped) =>
          {l.tag : l \in Range(bootlist)} = Range(Devices) \cup Tagged

\* What the menu shows is a list of lines that can be chosen by letter.
MenuSound == TypeOK /\ LettersFollowLines /\ EveryLineOnce

\* t is s with the line of d on top and the others in the order they had.
PutOnTop(s, t, d) ==
    /\ t[1].tag = d /\ Len(t) = Len(s) /\ Range(t) = Range(s)
    /\ \A i, j \in DOMAIN s :
          (i < j /\ d \notin {s[i].tag, s[j].tag}) =>
              \E k, l \in DOMAIN s : k < l /\ t[k] = s[i] /\ t[l] = s[j]

\* "Chosen device will be moved to the top and reset shuffled down": pressing a
\* device's letter puts its line first and keeps the order of all the others.
ChosenGoesOnTop ==
    [][\A d \in Range(Devices) :
         KeyLetter(d) /\ (\E i \in DOMAIN bootlist : bootlist[i].tag = d)
             => PutOnTop(bootlist, bootlist', d)]_vars

=============================================================================
