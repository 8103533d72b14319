------------------------------- MODULE SdCard -------------------------------
(***************************************************************************)
(* The driver of the SD card, sdio/sd_spi.c under the file system's        *)
(* functions in sdio/io.c: initialization, capacity, and the reading and   *)
(* writing of a block, command by command, with the card at the other end. *)
(***************************************************************************)
EXTENDS Integers

CONSTANTS
  Cards,     \* the cards: [kind, sectors]
  Data,      \* what is written to a block
  BlockLen,  \* bytes of a block: 512
  SizeRange, \* what an unsigned short holds of a capacity: 2^16 units of 1024 sectors
  Tries0, Tries8, Tries41, \* of the commands: 256, 10 and 256
  CardFaults, \* bound: answers lost or wrong, blocks spoiled or not kept, removals, resets
  CardCalls   \* bound: calls of the file system

ASSUME CardSizes ==
  /\ BlockLen \in Nat \ {0} /\ SizeRange \in Nat \ {0} /\ CardFaults \in Nat /\ CardCalls \in Nat
  /\ {Tries0, Tries8, Tries41} \subseteq Nat \ {0}
  /\ \A c \in Cards : c.kind \in {"Ver1", "Ver2", "High"} /\ c.sectors \in Nat \ {0}
  /\ "old" \in Data /\ {"spoiled", "written", "-"} \cap Data = {}

VARIABLES
  card, \* [kind, sectors, content, taken, in, power, told]: taken: what it is writing;
        \* told: it knows from CMD8 that its host is of version 2
  drv,  \* [at, try, sd_type, count, op, block, data, good]: where the driver is, and its variables
  got,  \* what the last call gave: "-" is an error
  cardFaults, cardCalls,
  cardSlips \* what the driver does not see or does wrong

cardVars == <<card, drv, got, cardFaults, cardCalls, cardSlips>>

Contents == Data \cup {"spoiled"}
NoCall == [at |-> "off", try |-> 0, sd_type |-> "Unk", count |-> 0, op |-> "none", block |-> 0, data |-> "-", good |-> FALSE]

CardTypeOK ==
  /\ card.content \in [0 .. card.sectors - 1 -> Contents]
  /\ card.power \in {"off", "idle", "ready"} /\ (card.power # "off" => card.in)
  /\ card.taken \in Contents \cup {"-"} /\ (card.taken # "-" => drv.at = "busy")
  /\ drv.at \in {"off", "loaded", "cmd0", "cmd8", "acmd41", "cmd58", "cmd9", "token", "data", "cmd", "sent", "busy"}
  /\ drv.sd_type \in {"Unk", "Ver1", "Ver2", "High"} /\ drv.count \in 0 .. card.sectors
  /\ (drv.op = "none") = (drv.at \in {"off", "loaded"}) /\ (drv.op \in {"read", "prog"} => drv.block < drv.count)
  /\ got \in Contents \cup {"-", "written"} /\ cardFaults \in 0 .. CardFaults /\ cardCalls \in 0 .. CardCalls

CardInit ==
  /\ \E c \in Cards : card = [kind |-> c.kind, sectors |-> c.sectors, in |-> TRUE, power |-> "off", told |-> FALSE,
                              taken |-> "-", content |-> [s \in 0 .. c.sectors - 1 |-> "old"]]
  /\ drv = NoCall /\ got = "-" /\ cardFaults = CardFaults /\ cardCalls = CardCalls /\ cardSlips = {}
-----------------------------------------------------------------------------
(* Commands and answers.  0xFF, which is read when no answer comes, has    *)
(* every bit set, that of an illegal command too.                          *)

On == card.power = "ready"
Answers == {"ok", "idle", "illegal", "error", "none"}
\* The card gives the answer, or it is lost or spoiled; a card that does not hear gives none.
Answered(r, answer, hears) ==
  \/ hears /\ r = answer /\ UNCHANGED cardFaults
  \/ ~hears /\ r = "none" /\ UNCHANGED cardFaults
  \/ hears /\ cardFaults > 0 /\ r \in {"error", "none"} /\ cardFaults' = cardFaults - 1
IsIllegal(r) == r \in {"illegal", "none"}

Goes(at) == drv' = [drv EXCEPT !.at = at, !.try = 0]
Returns(value) ==
  /\ got' = value
  /\ drv' = [drv EXCEPT !.at = "loaded", !.op = "none", !.try = 0, !.block = 0, !.data = "-", !.good = FALSE]
\* fs_load fails, and with it the program.
LoadFails == drv' = NoCall /\ UNCHANGED got
\* Variant: the tries are not counted.
NextTrySame(n) == n
NextTry(n) == n + 1
Again(tries) == IF NextTry(drv.try) < tries THEN drv' = [drv EXCEPT !.try = NextTry(@)] /\ UNCHANGED got ELSE LoadFails
-----------------------------------------------------------------------------
(* sd_spi_init and sd_spi_sectors. *)

Load ==
  /\ drv.at = "off" /\ cardCalls > 0
  /\ drv' = [NoCall EXCEPT !.at = "cmd0", !.op = "load"]
  /\ cardCalls' = cardCalls - 1 /\ got' = "-"
  /\ UNCHANGED <<card, cardFaults, cardSlips>>

GoIdle ==
  /\ drv.at = "cmd0"
  /\ \E r \in Answers :
       /\ Answered(r, "idle", card.in)
       /\ IF r = "idle" THEN Goes("cmd8") /\ UNCHANGED got ELSE Again(Tries0)
  /\ card' = IF card.in THEN [card EXCEPT !.power = "idle", !.told = FALSE] ELSE card
  /\ UNCHANGED <<cardCalls, cardSlips>>

\* The echo is compared with another byte than was sent, so that every try is made.
SendIfCond ==
  /\ drv.at = "cmd8"
  /\ \E r \in Answers, heard \in BOOLEAN :
       /\ Answered(r, IF card.kind = "Ver1" THEN "illegal" ELSE "idle", card.power # "off")
       /\ r = "idle" => heard
       /\ card.power = "off" \/ card.kind = "Ver1" \/ r = "error" => ~heard
       /\ card' = [card EXCEPT !.told = @ \/ heard]
       /\ \/ IsIllegal(r) /\ drv' = [drv EXCEPT !.at = "acmd41", !.try = 0, !.sd_type = "Ver1"] /\ UNCHANGED got
          \/ ~IsIllegal(r) /\ r = "idle" /\ drv.try + 1 = Tries8 /\ Goes("acmd41") /\ UNCHANGED got
          \/ ~IsIllegal(r) /\ ~(r = "idle" /\ drv.try + 1 = Tries8) /\ Again(Tries8)
  /\ UNCHANGED <<cardCalls, cardSlips>>

\* The card is ready when it likes; one of high capacity only for a host that told it its version.
SendOpCond ==
  /\ drv.at = "acmd41"
  /\ \E r \in Answers, a \in {"idle", "ok"} :
       /\ a = "ok" /\ card.kind = "High" => card.told
       /\ Answered(r, a, card.power # "off")
       /\ card' = IF r = "ok" THEN [card EXCEPT !.power = "ready"] ELSE card
       /\ IF r = "ok" THEN Goes(IF drv.sd_type = "Unk" THEN "cmd58" ELSE "cmd9") /\ UNCHANGED got
          ELSE Again(Tries41)
       /\ cardSlips' = IF r = "ok" /\ drv.sd_type = "Ver1" /\ card.kind = "High"
                       THEN cardSlips \cup {"misjudged"} ELSE cardSlips
  /\ UNCHANGED cardCalls

ReadOcr ==
  /\ drv.at = "cmd58"
  /\ \E r \in Answers :
       /\ Answered(r, "ok", On)
       /\ IF r = "ok" THEN drv' = [drv EXCEPT !.at = "cmd9", !.sd_type = IF card.kind = "High" THEN "High" ELSE "Ver2"]
                           /\ UNCHANGED got
          ELSE LoadFails
  /\ UNCHANGED <<card, cardCalls, cardSlips>>

ReadCsd ==
  /\ drv.at = "cmd9"
  /\ \E r \in Answers :
       /\ Answered(r, "ok", On)
       /\ IF r = "ok" THEN Goes("token") /\ UNCHANGED got ELSE LoadFails
  /\ UNCHANGED <<card, cardCalls, cardSlips>>

\* Variant: the size field is taken for one less than it says, though it was one less already.
SectorsMore == card.sectors + 1
\* The capacity, of which an unsigned short keeps the lower bits.
Sectors == IF card.kind = "High" THEN card.sectors % SizeRange ELSE card.sectors
Loaded ==
  /\ IF Sectors = 0 THEN LoadFails
     ELSE drv' = [drv EXCEPT !.at = "loaded", !.op = "none", !.count = Sectors] /\ UNCHANGED got
  /\ cardSlips' = IF Sectors # card.sectors THEN cardSlips \cup {"capacity"} ELSE cardSlips
-----------------------------------------------------------------------------
(* sd_spi_read and sd_spi_write, as fs_hal_read and fs_hal_prog call them. *)

Request ==
  /\ drv.at = "loaded" /\ cardCalls > 0
  /\ \E b \in 0 .. drv.count - 1, d \in Data \cup {"-"} :
       drv' = [drv EXCEPT !.at = "cmd", !.op = IF d = "-" THEN "read" ELSE "prog", !.block = b, !.data = d]
  /\ cardCalls' = cardCalls - 1 /\ got' = "-"
  /\ UNCHANGED <<card, cardFaults, cardSlips>>

\* Blocks are numbered in bytes, but on a card of high capacity.
Address == IF drv.sd_type # "High" THEN drv.block * BlockLen ELSE drv.block
Sector == IF card.kind = "High" THEN Address ELSE Address \div BlockLen

Command ==
  /\ drv.at = "cmd"
  /\ \E r \in Answers :
       /\ Answered(r, IF Sector < card.sectors THEN "ok" ELSE "error", On)
       /\ IF r = "ok" THEN Goes(IF drv.op = "read" THEN "token" ELSE "sent") /\ UNCHANGED got ELSE Returns("-")
  /\ UNCHANGED <<card, cardCalls, cardSlips>>

\* The start of the data is waited for, as long as it takes; an error token ends the call.
Token ==
  /\ drv.at = "token" /\ On
  /\ \/ Goes("data") /\ UNCHANGED <<got, cardFaults>>
     \/ /\ cardFaults > 0 /\ cardFaults' = cardFaults - 1
        /\ IF drv.op = "load" THEN LoadFails ELSE Returns("-")
  /\ UNCHANGED <<card, cardCalls, cardSlips>>

\* The check fails on what is spoiled, and on the bytes read when there is no card.
ReadData ==
  /\ drv.at = "data"
  /\ \/ /\ On /\ UNCHANGED cardFaults
        /\ IF drv.op = "load" THEN Loaded ELSE Returns(card.content[Sector]) /\ UNCHANGED cardSlips
     \/ /\ ~On \/ cardFaults > 0
        /\ cardFaults' = IF On THEN cardFaults - 1 ELSE cardFaults
        /\ IF drv.op = "load" THEN LoadFails ELSE Returns("-")
        /\ UNCHANGED cardSlips
  /\ UNCHANGED <<card, cardCalls>>

\* Variant: any answer will do.
IsAcceptedAny(r) == r # "none"
IsAccepted(r) == r = "accepted"
\* The answer to the data.  The card does not look at the check, so that it accepts spoiled data.
Respond ==
  /\ drv.at = "sent"
  /\ \E r \in IF On THEN {"accepted", "rejected"} ELSE {"none"}, spoiled \in BOOLEAN :
       LET fault == r = "rejected" \/ spoiled
       IN /\ fault => cardFaults > 0
          /\ spoiled => r = "accepted"
          /\ cardFaults' = IF fault THEN cardFaults - 1 ELSE cardFaults
          /\ drv' = [drv EXCEPT !.at = "busy", !.good = IsAccepted(r)]
          /\ card' = IF r = "accepted" THEN [card EXCEPT !.taken = IF spoiled THEN "spoiled" ELSE drv.data] ELSE card
          /\ cardSlips' = IF spoiled THEN cardSlips \cup {"unchecked"} ELSE cardSlips
  /\ UNCHANGED <<got, cardCalls>>

Kept == [card EXCEPT !.content[Sector] = card.taken, !.taken = "-"]
Dropped == [card EXCEPT !.taken = "-"]

\* The card is waited for until the line is high, as it is without a card; that
\* it could not keep what it took is not asked.
Busy ==
  /\ drv.at = "busy" /\ Returns(IF drv.good THEN "written" ELSE "-")
  /\ \/ card' = (IF card.taken = "-" THEN card ELSE Kept) /\ UNCHANGED <<cardFaults, cardSlips>>
     \/ /\ card.taken # "-" /\ cardFaults > 0 /\ cardFaults' = cardFaults - 1
        /\ card' = Dropped /\ cardSlips' = cardSlips \cup {"unprogrammed"}
  /\ UNCHANGED cardCalls

DriverStep ==
  \/ GoIdle \/ SendIfCond \/ SendOpCond \/ ReadOcr \/ ReadCsd
  \/ Command \/ Token \/ ReadData \/ Respond \/ Busy
-----------------------------------------------------------------------------
(* What befalls the two. *)

TakeOut ==
  /\ card.in /\ cardFaults > 0 /\ cardFaults' = cardFaults - 1
  /\ \E after \in IF card.taken = "-" THEN {card} ELSE {Kept, Dropped} :
       card' = [after EXCEPT !.in = FALSE, !.power = "off", !.told = FALSE]
  /\ cardSlips' = IF card.taken = "-" THEN cardSlips ELSE cardSlips \cup {"removed"}
  /\ UNCHANGED <<drv, got, cardCalls>>

PutIn ==
  /\ ~card.in /\ card' = [card EXCEPT !.in = TRUE]
  /\ UNCHANGED <<drv, got, cardFaults, cardCalls, cardSlips>>

\* The processor is reset; the card, which is not, may finish what it took.
CardReset ==
  /\ drv.at # "off" /\ cardFaults > 0 /\ cardFaults' = cardFaults - 1
  /\ drv' = NoCall /\ got' = "-"
  /\ card' \in IF card.taken = "-" THEN {card} ELSE {Kept, Dropped}
  /\ UNCHANGED <<cardCalls, cardSlips>>

CardNext == Load \/ Request \/ DriverStep \/ TakeOut \/ PutIn \/ CardReset

\* The driver is a loop that runs; a card that is there sends its data in the end.
CardSpec == CardInit /\ [][CardNext]_cardVars /\ WF_cardVars(DriverStep)
-----------------------------------------------------------------------------
(* Properties *)

Device == INSTANCE BlockDevice WITH
  disk <- card.content, size <- drv.count,
  request <- [op |-> drv.op, block |-> drv.block, data |-> drv.data],
  excused <- cardSlips # {}

\* The driver and a card of any kind are a block device to the file system: a
\* block goes to its own place, what is reported written is there and what is
\* read is what is there, through lost and wrong answers, removals and resets,
\* until one of five things happens: the driver misjudges the kind of the card or
\* its capacity, or does not notice that what it sent was spoiled on its way, not
\* programmed, or lost as the card was taken out.
CardIsBlockDevice == Device!Spec

\* A call of the driver comes to an end, whatever the card answers, but one
\* that waits for the data of a card that was taken out.
Deserted == drv.at = "token" /\ ~On
CardCallsEnd == drv.op # "none" ~> (drv.op = "none" \/ Deserted)
=============================================================================
