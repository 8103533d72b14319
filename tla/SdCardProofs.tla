---------------------------- MODULE SdCardProofs ----------------------------
(***************************************************************************)
(* The driver of the SD card implements BlockDevice, for cards of any kind *)
(* and size, any number of tries, faults and calls.                        *)
(***************************************************************************)
EXTENDS SdCard, FiniteSets, TLAPS

Kinds == {"Ver1", "Ver2", "High"}
DriverPlaces == {"off", "loaded", "cmd0", "cmd8", "acmd41", "cmd58", "cmd9", "token", "data", "cmd", "sent", "busy"}

CardOf(n) == [kind : Kinds, sectors : {n}, content : [0 .. n - 1 -> Contents], taken : Contents \cup {"-"},
              in : BOOLEAN, power : {"off", "idle", "ready"}, told : BOOLEAN]
Drivers == [at : DriverPlaces, try : Nat, sd_type : {"Unk"} \cup Kinds, count : Nat,
            op : {"none", "load", "read", "prog"}, block : Nat, data : Data \cup {"-"}, good : BOOLEAN]

CardTyped ==
  /\ card.sectors \in Nat \ {0} /\ card \in CardOf(card.sectors) /\ drv \in Drivers

\* Which call the driver is in, by where it is, and with which arguments.
InCall ==
  /\ drv.at \in {"off", "loaded"} => drv.op = "none"
  /\ drv.at \in {"cmd0", "cmd8", "acmd41", "cmd58", "cmd9"} => drv.op = "load"
  /\ drv.at \in {"token", "data"} => drv.op \in {"load", "read"}
  /\ drv.at = "cmd" => drv.op \in {"read", "prog"}
  /\ drv.at \in {"sent", "busy"} => drv.op = "prog"
  /\ drv.op # "prog" => drv.data = "-"
  /\ drv.op = "prog" => drv.data \in Data
  /\ drv.op \in {"none", "load"} => drv.block = 0
  /\ drv.op = "load" \/ drv.at = "off" => drv.count = 0
  /\ drv.op \in {"read", "prog"} => drv.block < drv.count

\* What the driver knows of the card is true, unless it slipped.
Known ==
  /\ drv.at \in {"off", "cmd0", "cmd8", "acmd41"} => drv.sd_type \in {"Unk", "Ver1"}
  /\ drv.at = "cmd58" => drv.sd_type = "Unk"
  /\ cardSlips = {} =>
       /\ drv.count \in {0, card.sectors}
       /\ drv.at \in {"loaded", "cmd9", "token", "data", "cmd", "sent", "busy"}
            => (drv.sd_type = "High" <=> card.kind = "High")

\* What the card is writing is what was sent, unless the driver slipped.
Writing ==
  /\ card.taken # "-" => drv.at = "busy"
  /\ cardSlips = {} /\ drv.at = "busy" => card.taken = (IF drv.good THEN drv.data ELSE "-")

CInv == CardTyped /\ InCall /\ Known /\ Writing
-----------------------------------------------------------------------------
LEMMA DataFacts ==
  /\ "-" \notin Data /\ "spoiled" \notin Data /\ "written" \notin Data /\ "old" \in Data
  /\ Data \subseteq Contents /\ "spoiled" \in Contents /\ "-" \notin Contents
  BY CardSizes DEF Contents

LEMMA GoesTo ==
  ASSUME drv \in Drivers, NEW at \in DriverPlaces, Goes(at)
  PROVE  /\ drv' \in Drivers /\ drv'.at = at
         /\ drv'.sd_type = drv.sd_type /\ drv'.count = drv.count /\ drv'.op = drv.op
         /\ drv'.block = drv.block /\ drv'.data = drv.data
  BY DEF Goes, Drivers

LEMMA ReturnsTo ==
  ASSUME drv \in Drivers, NEW v, Returns(v)
  PROVE  /\ drv' \in Drivers /\ drv'.at = "loaded" /\ drv'.op = "none" /\ drv'.block = 0 /\ drv'.data = "-"
         /\ drv'.sd_type = drv.sd_type /\ drv'.count = drv.count /\ got' = v
  BY DEF Returns, Drivers, DriverPlaces

LEMMA NoCallIs ==
  /\ NoCall \in Drivers /\ NoCall.at = "off" /\ NoCall.sd_type = "Unk" /\ NoCall.count = 0
  /\ NoCall.op = "none" /\ NoCall.block = 0 /\ NoCall.data = "-"
  BY DEF NoCall, Drivers, DriverPlaces

LEMMA AgainOrFails ==
  ASSUME drv \in Drivers, NEW n, Again(n)
  PROVE  /\ got' = got
         /\ \/ LoadFails
            \/ /\ drv' \in Drivers /\ drv'.at = drv.at
               /\ drv'.sd_type = drv.sd_type /\ drv'.count = drv.count /\ drv'.op = drv.op
               /\ drv'.block = drv.block /\ drv'.data = drv.data
  BY DEF Again, LoadFails, NextTry, Drivers

\* A step that leaves the driver without a call, and nothing being written.
LEMMA FailsWell ==
  ASSUME CInv, drv' = NoCall, card'.taken = "-",
         card'.sectors \in Nat \ {0}, card' \in CardOf(card'.sectors)
  PROVE  CInv'
<1>1. CardTyped'
  BY NoCallIs DEF CardTyped
<1>2. InCall' /\ Known' /\ Writing'
  BY NoCallIs DEF InCall, Known, Writing
<1>. QED  BY <1>1, <1>2 DEF CInv
-----------------------------------------------------------------------------
(* Each action keeps the invariant. *)

\* The steps of loading after which the driver goes on: the place it goes to
\* and what it takes the card for.
LEMMA LoadsOn ==
  ASSUME CInv, drv.op = "load", drv.at # "busy", drv' \in Drivers,
         drv'.at \in {"cmd0", "cmd8", "acmd41", "cmd58", "cmd9", "token", "data"},
         drv'.op = "load", drv'.block = drv.block, drv'.data = drv.data, drv'.count = drv.count,
         drv'.at \in {"cmd0", "cmd8", "acmd41"} => drv'.sd_type \in {"Unk", "Ver1"},
         drv'.at = "cmd58" => drv'.sd_type = "Unk",
         cardSlips' = {} => cardSlips = {},
         cardSlips' = {} /\ drv'.at \in {"cmd9", "token", "data"} => (drv'.sd_type = "High" <=> card'.kind = "High"),
         card'.taken = card.taken, card'.sectors = card.sectors, card' \in CardOf(card.sectors)
  PROVE  CInv'
<1>1. CardTyped'
  BY DEF CInv, CardTyped
<1>2. InCall'
  BY DEF CInv, InCall
<1>3. Known'
  BY DEF CInv, Known, InCall
<1>4. Writing'
  BY DEF CInv, Writing
<1>. QED  BY <1>1, <1>2, <1>3, <1>4 DEF CInv

LEMMA QuietCard ==
  ASSUME CInv, drv.at # "busy"
  PROVE  card.taken = "-" /\ card.sectors \in Nat \ {0} /\ card \in CardOf(card.sectors) /\ drv \in Drivers
  BY DEF CInv, Writing, CardTyped

LEMMA InitCard == CardInit => CInv
<1>. SUFFICES ASSUME CardInit PROVE CInv
  OBVIOUS
<1>1. PICK c \in Cards : card = [kind |-> c.kind, sectors |-> c.sectors, in |-> TRUE, power |-> "off", told |-> FALSE,
                                 taken |-> "-", content |-> [s \in 0 .. c.sectors - 1 |-> "old"]]
  BY DEF CardInit
<1>2. c.kind \in Kinds /\ c.sectors \in Nat \ {0}
  BY CardSizes DEF Kinds
<1>3. card.taken = "-" /\ card.sectors = c.sectors /\ card \in CardOf(c.sectors)
  <2>1. [s \in 0 .. c.sectors - 1 |-> "old"] \in [0 .. c.sectors - 1 -> Contents]
    BY DataFacts
  <2>. QED  BY <1>1, <1>2, <2>1 DEF CardOf
<1>4. drv = NoCall /\ cardSlips = {}
  BY DEF CardInit
<1>5. CardTyped
  BY <1>2, <1>3, <1>4, NoCallIs DEF CardTyped
<1>6. InCall /\ Known /\ Writing
  BY <1>3, <1>4, NoCallIs DEF InCall, Known, Writing
<1>. QED  BY <1>5, <1>6 DEF CInv

LEMMA LoadKeeps ==
  ASSUME CInv, Load
  PROVE  CInv'
<1>1. card.taken = "-" /\ card.sectors \in Nat \ {0} /\ card \in CardOf(card.sectors) /\ card' = card /\ cardSlips' = cardSlips
  BY QuietCard DEF Load
<1>2. drv' \in Drivers /\ drv'.at = "cmd0" /\ drv'.op = "load" /\ drv'.block = 0 /\ drv'.data = "-"
      /\ drv'.count = 0 /\ drv'.sd_type = "Unk"
  BY DEF Load, NoCall, Drivers, DriverPlaces
<1>3. CardTyped'
  BY <1>1, <1>2 DEF CardTyped
<1>4. InCall' /\ Known' /\ Writing'
  BY <1>1, <1>2 DEF InCall, Known, Writing
<1>. QED  BY <1>3, <1>4 DEF CInv

LEMMA GoIdleKeeps ==
  ASSUME CInv, GoIdle
  PROVE  CInv'
<1>1. card.taken = "-" /\ card.sectors \in Nat \ {0} /\ card \in CardOf(card.sectors) /\ drv \in Drivers
      /\ drv.at = "cmd0" /\ drv.op = "load" /\ drv.sd_type \in {"Unk", "Ver1"} /\ cardSlips' = cardSlips
  BY QuietCard DEF GoIdle, CInv, InCall, Known
<1>2. card'.taken = "-" /\ card'.sectors = card.sectors /\ card' \in CardOf(card.sectors)
  BY <1>1 DEF GoIdle, CardOf
<1>3. CASE Goes("cmd8")
  BY <1>1, <1>2, <1>3, GoesTo, LoadsOn DEF DriverPlaces
<1>4. CASE Again(Tries0)
  <2>1. CASE LoadFails
    BY <1>1, <1>2, <2>1, FailsWell DEF LoadFails
  <2>2. CASE ~LoadFails
    BY <1>1, <1>2, <1>4, <2>2, AgainOrFails, LoadsOn
  <2>. QED  BY <2>1, <2>2
<1>. QED  BY <1>3, <1>4 DEF GoIdle

LEMMA SendIfCondKeeps ==
  ASSUME CInv, SendIfCond
  PROVE  CInv'
<1>1. card.taken = "-" /\ card.sectors \in Nat \ {0} /\ card \in CardOf(card.sectors) /\ drv \in Drivers
      /\ drv.at = "cmd8" /\ drv.op = "load" /\ drv.sd_type \in {"Unk", "Ver1"} /\ cardSlips' = cardSlips
  BY QuietCard DEF SendIfCond, CInv, InCall, Known
<1>2. card'.taken = "-" /\ card'.sectors = card.sectors /\ card' \in CardOf(card.sectors)
  <2>1. PICK heard \in BOOLEAN : card' = [card EXCEPT !.told = @ \/ heard]
    BY DEF SendIfCond
  <2>2. card.told \/ heard \in BOOLEAN
    OBVIOUS
  <2>. QED  BY <1>1, <2>1, <2>2 DEF CardOf
<1>3. CASE drv' = [drv EXCEPT !.at = "acmd41", !.try = 0, !.sd_type = "Ver1"]
  <2>1. drv' \in Drivers /\ drv'.at = "acmd41" /\ drv'.sd_type = "Ver1" /\ drv'.op = drv.op
        /\ drv'.block = drv.block /\ drv'.data = drv.data /\ drv'.count = drv.count
    BY <1>1, <1>3 DEF Drivers, DriverPlaces, Kinds
  <2>. QED  BY <1>1, <1>2, <2>1, LoadsOn
<1>4. CASE Goes("acmd41")
  BY <1>1, <1>2, <1>4, GoesTo, LoadsOn DEF DriverPlaces
<1>5. CASE Again(Tries8)
  <2>1. CASE LoadFails
    BY <1>1, <1>2, <2>1, FailsWell DEF LoadFails
  <2>2. CASE ~LoadFails
    BY <1>1, <1>2, <1>5, <2>2, AgainOrFails, LoadsOn
  <2>. QED  BY <2>1, <2>2
<1>. QED  BY <1>3, <1>4, <1>5 DEF SendIfCond

LEMMA SendOpCondKeeps ==
  ASSUME CInv, SendOpCond
  PROVE  CInv'
<1>1. card.taken = "-" /\ card.sectors \in Nat \ {0} /\ card \in CardOf(card.sectors) /\ drv \in Drivers
      /\ drv.at = "acmd41" /\ drv.op = "load" /\ drv.sd_type \in {"Unk", "Ver1"}
  BY QuietCard DEF SendOpCond, CInv, InCall, Known
<1>2. card'.taken = "-" /\ card'.sectors = card.sectors /\ card'.kind = card.kind /\ card' \in CardOf(card.sectors)
  BY <1>1 DEF SendOpCond, CardOf
<1>3. PICK r \in Answers :
        /\ IF r = "ok" THEN Goes(IF drv.sd_type = "Unk" THEN "cmd58" ELSE "cmd9") ELSE Again(Tries41)
        /\ cardSlips' = IF r = "ok" /\ drv.sd_type = "Ver1" /\ card.kind = "High"
                        THEN cardSlips \cup {"misjudged"} ELSE cardSlips
  BY DEF SendOpCond
<1>4. cardSlips' = {} => cardSlips = {}
  BY <1>3
<1>5. CASE r = "ok" /\ drv.sd_type = "Unk"
  <2>1. Goes("cmd58")
    BY <1>3, <1>5
  <2>. QED  BY <1>1, <1>2, <1>4, <1>5, <2>1, GoesTo, LoadsOn DEF DriverPlaces
<1>6. CASE r = "ok" /\ drv.sd_type = "Ver1"
  <2>1. Goes("cmd9") /\ (card.kind = "High" => cardSlips' # {})
    BY <1>3, <1>6
  <2>. QED  BY <1>1, <1>2, <1>4, <1>6, <2>1, GoesTo, LoadsOn DEF DriverPlaces
<1>7. CASE r # "ok" /\ LoadFails
  BY <1>1, <1>2, <1>7, FailsWell DEF LoadFails
<1>8. CASE r # "ok" /\ ~LoadFails
  BY <1>1, <1>2, <1>3, <1>4, <1>8, AgainOrFails, LoadsOn
<1>. QED  BY <1>1, <1>5, <1>6, <1>7, <1>8

LEMMA ReadOcrKeeps ==
  ASSUME CInv, ReadOcr
  PROVE  CInv'
<1>1. card.taken = "-" /\ card.sectors \in Nat \ {0} /\ card \in CardOf(card.sectors) /\ drv \in Drivers
      /\ drv.at = "cmd58" /\ drv.op = "load" /\ cardSlips' = cardSlips /\ card' = card
  BY QuietCard DEF ReadOcr, CInv, InCall
<1>2. CASE drv' = [drv EXCEPT !.at = "cmd9", !.sd_type = IF card.kind = "High" THEN "High" ELSE "Ver2"]
  <2>1. drv' \in Drivers /\ drv'.at = "cmd9" /\ drv'.op = drv.op /\ (drv'.sd_type = "High" <=> card.kind = "High")
        /\ drv'.block = drv.block /\ drv'.data = drv.data /\ drv'.count = drv.count
    BY <1>1, <1>2 DEF Drivers, DriverPlaces, Kinds
  <2>. QED  BY <1>1, <2>1, LoadsOn
<1>3. CASE LoadFails
  BY <1>1, <1>3, FailsWell DEF LoadFails
<1>. QED  BY <1>2, <1>3 DEF ReadOcr

LEMMA ReadCsdKeeps ==
  ASSUME CInv, ReadCsd
  PROVE  CInv'
<1>1. card.taken = "-" /\ card.sectors \in Nat \ {0} /\ card \in CardOf(card.sectors) /\ drv \in Drivers
      /\ drv.at = "cmd9" /\ drv.op = "load" /\ cardSlips' = cardSlips /\ card' = card
      /\ (cardSlips = {} => (drv.sd_type = "High" <=> card.kind = "High"))
  BY QuietCard DEF ReadCsd, CInv, InCall, Known
<1>2. CASE Goes("token")
  BY <1>1, <1>2, GoesTo, LoadsOn DEF DriverPlaces
<1>3. CASE LoadFails
  BY <1>1, <1>3, FailsWell DEF LoadFails
<1>. QED  BY <1>2, <1>3 DEF ReadCsd

\* The steps of a read or a write after which the driver goes on.
LEMMA WorksOn ==
  ASSUME CInv, drv.op \in {"read", "prog"}, drv.at \in {"cmd", "token"}, drv' \in Drivers,
         drv'.at \in {"token", "data", "sent"}, drv'.at = "sent" <=> drv.op = "prog",
         drv'.op = drv.op, drv'.block = drv.block, drv'.data = drv.data, drv'.count = drv.count,
         drv'.sd_type = drv.sd_type, UNCHANGED <<card, cardSlips>>
  PROVE  CInv'
<1>1. CardTyped'
  BY DEF CInv, CardTyped
<1>2. InCall'
  BY DEF CInv, InCall
<1>3. Known' /\ Writing'
  BY DEF CInv, Known, Writing
<1>. QED  BY <1>1, <1>2, <1>3 DEF CInv

\* A step that ends a read or a write.
LEMMA EndsWell ==
  ASSUME CInv, drv.op \in {"read", "prog"}, NEW v, Returns(v), cardSlips' = {} => cardSlips = {},
         card'.taken = "-", card'.sectors = card.sectors, card'.kind = card.kind, card' \in CardOf(card.sectors)
  PROVE  CInv'
<1>1. drv \in Drivers /\ drv.at \in {"cmd", "token", "data", "sent", "busy"}
  BY DEF CInv, CardTyped, InCall, Drivers, DriverPlaces
<1>2. drv' \in Drivers /\ drv'.at = "loaded" /\ drv'.op = "none" /\ drv'.block = 0 /\ drv'.data = "-"
      /\ drv'.sd_type = drv.sd_type /\ drv'.count = drv.count
  BY <1>1, ReturnsTo
<1>3. CardTyped'
  BY <1>2 DEF CInv, CardTyped
<1>4. InCall' /\ Known' /\ Writing'
  BY <1>1, <1>2 DEF CInv, InCall, Known, Writing
<1>. QED  BY <1>3, <1>4 DEF CInv

LEMMA RequestKeeps ==
  ASSUME CInv, Request
  PROVE  CInv'
<1>1. card.taken = "-" /\ card.sectors \in Nat \ {0} /\ card \in CardOf(card.sectors) /\ drv \in Drivers
      /\ drv.at = "loaded" /\ card' = card /\ cardSlips' = cardSlips
  BY QuietCard DEF Request
<1>2. PICK b \in 0 .. drv.count - 1, d \in Data \cup {"-"} :
        drv' = [drv EXCEPT !.at = "cmd", !.op = IF d = "-" THEN "read" ELSE "prog", !.block = b, !.data = d]
  BY DEF Request
<1>3. drv' \in Drivers /\ drv'.at = "cmd" /\ drv'.op = (IF d = "-" THEN "read" ELSE "prog") /\ drv'.block = b
      /\ drv'.data = d /\ drv'.sd_type = drv.sd_type /\ drv'.count = drv.count /\ b < drv.count
  <2>1. drv.count \in Nat
    BY <1>1 DEF Drivers
  <2>2. b \in Nat /\ b < drv.count
    BY <2>1
  <2>. QED  BY <1>1, <1>2, <2>2 DEF Drivers, DriverPlaces
<1>4. CardTyped'
  BY <1>1, <1>3 DEF CardTyped
<1>5. InCall' /\ Known' /\ Writing'
  BY <1>1, <1>3, DataFacts DEF CInv, InCall, Known, Writing
<1>. QED  BY <1>4, <1>5 DEF CInv

LEMMA CommandKeeps ==
  ASSUME CInv, Command
  PROVE  CInv'
<1>1. card.taken = "-" /\ card.sectors \in Nat \ {0} /\ card \in CardOf(card.sectors) /\ drv \in Drivers
      /\ drv.at = "cmd" /\ drv.op \in {"read", "prog"} /\ UNCHANGED <<card, cardSlips>>
  BY QuietCard DEF Command, CInv, InCall
<1>2. CASE Goes(IF drv.op = "read" THEN "token" ELSE "sent")
  <2>1. CASE drv.op = "read"
    BY <1>1, <1>2, <2>1, GoesTo, WorksOn DEF DriverPlaces
  <2>2. CASE drv.op = "prog"
    BY <1>1, <1>2, <2>2, GoesTo, WorksOn DEF DriverPlaces
  <2>. QED  BY <1>1, <2>1, <2>2
<1>3. CASE Returns("-")
  BY <1>1, <1>3, EndsWell
<1>. QED  BY <1>2, <1>3 DEF Command

LEMMA TokenKeeps ==
  ASSUME CInv, Token
  PROVE  CInv'
<1>1. card.taken = "-" /\ card.sectors \in Nat \ {0} /\ card \in CardOf(card.sectors) /\ drv \in Drivers
      /\ drv.at = "token" /\ drv.op \in {"load", "read"} /\ UNCHANGED <<card, cardSlips>>
      /\ (cardSlips = {} => (drv.sd_type = "High" <=> card.kind = "High"))
  BY QuietCard DEF Token, CInv, InCall, Known
<1>2. CASE Goes("data")
  <2>1. CASE drv.op = "load"
    BY <1>1, <1>2, <2>1, GoesTo, LoadsOn DEF DriverPlaces
  <2>2. CASE drv.op = "read"
    BY <1>1, <1>2, <2>2, GoesTo, WorksOn DEF DriverPlaces
  <2>. QED  BY <1>1, <2>1, <2>2
<1>3. CASE drv.op = "load" /\ LoadFails
  BY <1>1, <1>3, FailsWell DEF LoadFails
<1>4. CASE drv.op # "load" /\ Returns("-")
  BY <1>1, <1>4, EndsWell
<1>. QED  BY <1>2, <1>3, <1>4 DEF Token

LEMMA SectorsNat == card.sectors \in Nat \ {0} => Sectors \in Nat
  BY CardSizes DEF Sectors

LEMMA LoadedKeeps ==
  ASSUME CInv, drv.at = "data", drv.op = "load", card' = card, Loaded
  PROVE  CInv'
<1>1. card.taken = "-" /\ card.sectors \in Nat \ {0} /\ card \in CardOf(card.sectors) /\ drv \in Drivers
      /\ (cardSlips = {} => (drv.sd_type = "High" <=> card.kind = "High")) /\ drv.data = "-" /\ drv.block = 0
  BY QuietCard DEF CInv, Known, InCall
<1>2. CASE LoadFails
  BY <1>1, <1>2, FailsWell DEF LoadFails
<1>3. CASE drv' = [drv EXCEPT !.at = "loaded", !.op = "none", !.count = Sectors]
  <2>1. drv' \in Drivers /\ drv'.at = "loaded" /\ drv'.op = "none" /\ drv'.count = Sectors
        /\ drv'.sd_type = drv.sd_type /\ drv'.data = "-" /\ drv'.block = 0
    BY <1>1, <1>3, SectorsNat DEF Drivers, DriverPlaces
  <2>2. cardSlips' = {} => cardSlips = {} /\ Sectors = card.sectors
    BY DEF Loaded
  <2>3. CardTyped'
    BY <1>1, <2>1 DEF CardTyped
  <2>4. InCall' /\ Known' /\ Writing'
    BY <1>1, <2>1, <2>2 DEF InCall, Known, Writing
  <2>. QED  BY <2>3, <2>4 DEF CInv
<1>. QED  BY <1>2, <1>3 DEF Loaded

LEMMA ReadDataKeeps ==
  ASSUME CInv, ReadData
  PROVE  CInv'
<1>1. card.taken = "-" /\ card.sectors \in Nat \ {0} /\ card \in CardOf(card.sectors) /\ drv \in Drivers
      /\ drv.at = "data" /\ drv.op \in {"load", "read"} /\ card' = card
  BY QuietCard DEF ReadData, CInv, InCall
<1>2. CASE drv.op = "load" /\ Loaded
  BY <1>1, <1>2, LoadedKeeps
<1>3. CASE drv.op = "load" /\ LoadFails
  BY <1>1, <1>3, FailsWell DEF LoadFails
<1>4. CASE drv.op # "load" /\ (Returns(card.content[Sector]) \/ Returns("-")) /\ UNCHANGED cardSlips
  BY <1>1, <1>4, EndsWell
<1>. QED  BY <1>2, <1>3, <1>4 DEF ReadData

LEMMA RespondKeeps ==
  ASSUME CInv, Respond
  PROVE  CInv'
<1>1. card.taken = "-" /\ card.sectors \in Nat \ {0} /\ card \in CardOf(card.sectors) /\ drv \in Drivers
      /\ drv.at = "sent" /\ drv.op = "prog" /\ drv.data \in Data
  BY QuietCard DEF Respond, CInv, InCall
<1>2. PICK r \in {"accepted", "rejected", "none"}, spoiled \in BOOLEAN :
        /\ spoiled => r = "accepted"
        /\ drv' = [drv EXCEPT !.at = "busy", !.good = IsAccepted(r)]
        /\ card' = IF r = "accepted" THEN [card EXCEPT !.taken = IF spoiled THEN "spoiled" ELSE drv.data] ELSE card
        /\ cardSlips' = IF spoiled THEN cardSlips \cup {"unchecked"} ELSE cardSlips
  BY DEF Respond
<1>3. drv' \in Drivers /\ drv'.at = "busy" /\ (drv'.good <=> r = "accepted") /\ drv'.op = drv.op
      /\ drv'.block = drv.block /\ drv'.data = drv.data /\ drv'.count = drv.count /\ drv'.sd_type = drv.sd_type
  BY <1>1, <1>2 DEF Drivers, DriverPlaces, IsAccepted
<1>4. card' \in CardOf(card.sectors) /\ card'.sectors = card.sectors /\ card'.kind = card.kind
      /\ card'.taken = (IF r = "accepted" THEN IF spoiled THEN "spoiled" ELSE drv.data ELSE "-")
  BY <1>1, <1>2, DataFacts DEF CardOf
<1>5. CardTyped'
  BY <1>1, <1>3, <1>4 DEF CardTyped
<1>6. InCall'
  BY <1>1, <1>3 DEF CInv, InCall
<1>7. cardSlips' = {} => cardSlips = {} /\ ~spoiled
  BY <1>2
<1>8. Known'
  BY <1>1, <1>3, <1>4, <1>7 DEF CInv, Known
<1>9. Writing'
  BY <1>2, <1>3, <1>4, <1>7 DEF Writing
<1>. QED  BY <1>5, <1>6, <1>8, <1>9 DEF CInv

\* What the card takes ends up in its place, or nowhere.
LEMMA KeptIs ==
  ASSUME CInv, card.taken # "-"
  PROVE  /\ Kept \in CardOf(card.sectors) /\ Kept.taken = "-" /\ Kept.sectors = card.sectors /\ Kept.kind = card.kind
         /\ Kept.content = [card.content EXCEPT ![Sector] = card.taken]
<1>1. card \in CardOf(card.sectors) /\ card.taken \in Contents
  BY DEF CInv, CardTyped, CardOf
<1>2. [card.content EXCEPT ![Sector] = card.taken] \in [0 .. card.sectors - 1 -> Contents]
  BY <1>1 DEF CardOf
<1>3. Kept = [card EXCEPT !.content = [card.content EXCEPT ![Sector] = card.taken], !.taken = "-"]
  BY DEF Kept
<1>. HIDE DEF Kept
<1>. QED  BY <1>1, <1>2, <1>3 DEF CardOf

LEMMA DroppedIs ==
  ASSUME CInv
  PROVE  /\ Dropped \in CardOf(card.sectors) /\ Dropped.taken = "-" /\ Dropped.sectors = card.sectors
         /\ Dropped.kind = card.kind /\ Dropped.content = card.content
<1>1. card \in CardOf(card.sectors)
  BY DEF CInv, CardTyped
<1>. QED  BY <1>1 DEF Dropped, CardOf

LEMMA BusyKeeps ==
  ASSUME CInv, Busy
  PROVE  CInv'
<1>1. card.sectors \in Nat \ {0} /\ card \in CardOf(card.sectors) /\ drv \in Drivers /\ drv.op = "prog"
  BY DEF Busy, CInv, InCall, CardTyped
<1>2. card'.taken = "-" /\ card'.sectors = card.sectors /\ card'.kind = card.kind /\ card' \in CardOf(card.sectors)
  BY <1>1, KeptIs, DroppedIs DEF Busy
<1>3. cardSlips' = {} => cardSlips = {}
  BY DEF Busy
<1>4. Returns(IF drv.good THEN "written" ELSE "-")
  BY DEF Busy
<1>. QED  BY <1>1, <1>2, <1>3, <1>4, EndsWell

LEMMA ResetKeeps ==
  ASSUME CInv, CardReset
  PROVE  CInv'
<1>1. card.sectors \in Nat \ {0} /\ card \in CardOf(card.sectors) /\ drv' = NoCall
  BY DEF CardReset, CInv, CardTyped
<1>2. card'.taken = "-" /\ card'.sectors = card.sectors /\ card' \in CardOf(card.sectors)
  BY <1>1, KeptIs, DroppedIs DEF CardReset
<1>. QED  BY <1>1, <1>2, FailsWell

\* The card is taken out or put in: the driver does not notice.
LEMMA MovedKeeps ==
  ASSUME CInv, TakeOut \/ PutIn
  PROVE  /\ CInv'
         /\ card'.sectors = card.sectors /\ UNCHANGED <<drv, got>>
         /\ cardSlips' = {} => cardSlips = {} /\ card'.content = card.content
<1>1. card.sectors \in Nat \ {0} /\ card \in CardOf(card.sectors) /\ drv \in Drivers /\ UNCHANGED <<drv, got>>
  BY DEF CInv, CardTyped, TakeOut, PutIn
<1>2. /\ card' \in CardOf(card.sectors) /\ card'.sectors = card.sectors /\ card'.kind = card.kind
      /\ card'.taken = card.taken \/ card'.taken = "-"
      /\ cardSlips' = {} => cardSlips = {} /\ card'.content = card.content /\ card'.taken = card.taken
  <2>1. CASE PutIn
    BY <1>1, <2>1 DEF PutIn, CardOf
  <2>2. CASE TakeOut /\ card.taken = "-"
    <3>1. card' = [card EXCEPT !.in = FALSE, !.power = "off", !.told = FALSE] /\ cardSlips' = cardSlips
      BY <2>2 DEF TakeOut
    <3>. QED  BY <1>1, <2>2, <3>1 DEF CardOf
  <2>3. CASE TakeOut /\ card.taken # "-"
    <3>1. PICK after \in {Kept, Dropped} : card' = [after EXCEPT !.in = FALSE, !.power = "off", !.told = FALSE]
      BY <2>3 DEF TakeOut
    <3>2. after \in CardOf(card.sectors) /\ after.taken = "-" /\ after.sectors = card.sectors /\ after.kind = card.kind
      BY <2>3, KeptIs, DroppedIs
    <3>3. cardSlips' # {}
      BY <2>3 DEF TakeOut
    <3>. QED  BY <3>1, <3>2, <3>3 DEF CardOf
  <2>. QED  BY <2>1, <2>2, <2>3
<1>3. CardTyped' /\ InCall' /\ Known' /\ Writing'
  <2>1. CardTyped'
    BY <1>1, <1>2 DEF CardTyped
  <2>2. InCall'
    BY <1>1 DEF CInv, InCall
  <2>3. Known'
    BY <1>1, <1>2 DEF CInv, Known
  <2>4. Writing'
    BY <1>1, <1>2 DEF CInv, Writing
  <2>. QED  BY <2>1, <2>2, <2>3, <2>4
<1>. QED  BY <1>1, <1>2, <1>3 DEF CInv

LEMMA CardNextKeeps ==
  ASSUME CInv, [CardNext]_cardVars
  PROVE  CInv'
<1>1. CASE DriverStep
  BY <1>1, GoIdleKeeps, SendIfCondKeeps, SendOpCondKeeps, ReadOcrKeeps, ReadCsdKeeps, CommandKeeps,
     TokenKeeps, ReadDataKeeps, RespondKeeps, BusyKeeps DEF DriverStep
<1>2. CASE Load \/ Request \/ TakeOut \/ PutIn \/ CardReset
  BY <1>2, LoadKeeps, RequestKeeps, MovedKeeps, ResetKeeps
<1>3. CASE UNCHANGED cardVars
  BY <1>3 DEF cardVars, CInv, CardTyped, InCall, Known, Writing
<1>. QED  BY <1>1, <1>2, <1>3 DEF CardNext
-----------------------------------------------------------------------------
(* The block device. *)

\* A step after which the driver has slipped promises nothing.
LEMMA Excused ==
  ASSUME cardSlips' # {}
  PROVE  Device!Next
  BY DEF Device!Next

LEMMA CapacityIs ==
  ASSUME CInv
  PROVE  Device!Blocks = 0 .. card.sectors - 1
  BY DEF CInv, CardTyped, CardOf, Device!Blocks

\* A block is addressed in its own place.
LEMMA OwnPlace ==
  ASSUME CInv, cardSlips = {}, drv.at \in {"cmd", "token", "data", "sent", "busy"}
  PROVE  Sector = drv.block
<1>1. drv.block \in Nat /\ BlockLen \in Nat \ {0} /\ (drv.sd_type = "High" <=> card.kind = "High")
  BY CardSizes DEF CInv, CardTyped, Drivers, Known
<1>2. (drv.block * BlockLen) \div BlockLen = drv.block
  BY <1>1
<1>. QED  BY <1>1, <1>2 DEF Sector, Address

\* The steps that change neither the call, nor the size, nor the disk, nor what was got.
LEMMA Stutters ==
  ASSUME drv'.op = drv.op, drv'.block = drv.block, drv'.data = drv.data, drv'.count = drv.count,
         got' = got, card'.content = card.content, cardSlips = {}, cardSlips' = {}
  PROVE  UNCHANGED Device!bvars
  BY DEF Device!bvars

\* A load that fails.
LEMMA LoadAnswers ==
  ASSUME CInv, drv.op = "load", drv' = NoCall, got' = got, card'.content = card.content,
         cardSlips = {}, cardSlips' = {}
  PROVE  Device!Next
<1>1. [op |-> drv'.op, block |-> drv'.block, data |-> drv'.data] = Device!Idle /\ drv'.count = 0
  BY NoCallIs DEF Device!Idle
<1>2. Device!Answer
  BY <1>1 DEF Device!Answer, Device!Idle
<1>. QED  BY <1>2 DEF Device!Next

LEMMA LoadingSteps ==
  ASSUME CInv, cardSlips = {}, cardSlips' = {}, GoIdle \/ SendIfCond \/ SendOpCond \/ ReadOcr \/ ReadCsd
  PROVE  [Device!Next]_Device!bvars
<1>1. drv \in Drivers /\ drv.op = "load" /\ drv.at \in {"cmd0", "cmd8", "acmd41", "cmd58", "cmd9"}
  BY DEF CInv, CardTyped, InCall, GoIdle, SendIfCond, SendOpCond, ReadOcr, ReadCsd
<1>2. card'.content = card.content
  <2>1. card \in CardOf(card.sectors)
    BY DEF CInv, CardTyped
  <2>2. CASE SendIfCond
    <3>1. PICK heard \in BOOLEAN : card' = [card EXCEPT !.told = @ \/ heard]
      BY <2>2 DEF SendIfCond
    <3>. QED  BY <2>1, <3>1 DEF CardOf
  <2>. QED  BY <2>1, <2>2 DEF GoIdle, SendOpCond, ReadOcr, ReadCsd, CardOf
<1>3. ASSUME NEW at \in DriverPlaces, Goes(at), got' = got PROVE UNCHANGED Device!bvars
  BY <1>1, <1>2, <1>3, GoesTo, Stutters
<1>4. CASE LoadFails
  BY <1>1, <1>2, <1>4, LoadAnswers DEF LoadFails
<1>5. ASSUME NEW n, Again(n) PROVE [Device!Next]_Device!bvars
  BY <1>1, <1>2, <1>4, <1>5, AgainOrFails, Stutters
<1>6. CASE GoIdle
  BY <1>3, <1>5, <1>6 DEF GoIdle, DriverPlaces
<1>7. CASE SendIfCond
  <2>1. CASE drv' = [drv EXCEPT !.at = "acmd41", !.try = 0, !.sd_type = "Ver1"] /\ got' = got
    BY <1>1, <1>2, <2>1, Stutters DEF Drivers
  <2>. QED  BY <1>3, <1>5, <1>7, <2>1 DEF SendIfCond, DriverPlaces
<1>8. CASE SendOpCond
  <2>1. \/ Goes(IF drv.sd_type = "Unk" THEN "cmd58" ELSE "cmd9") /\ got' = got
        \/ Again(Tries41)
    BY <1>8 DEF SendOpCond
  <2>. QED  BY <1>3, <1>5, <2>1 DEF DriverPlaces
<1>9. CASE ReadOcr
  <2>1. CASE drv' = [drv EXCEPT !.at = "cmd9", !.sd_type = IF card.kind = "High" THEN "High" ELSE "Ver2"] /\ got' = got
    BY <1>1, <1>2, <2>1, Stutters DEF Drivers
  <2>. QED  BY <1>4, <1>9, <2>1 DEF ReadOcr
<1>10. CASE ReadCsd
  BY <1>3, <1>4, <1>10 DEF ReadCsd, DriverPlaces
<1>. QED  BY <1>6, <1>7, <1>8, <1>9, <1>10

\* A read or a write that ends: with an error, or with its result.
LEMMA CallAnswers ==
  ASSUME CInv, drv.op \in {"read", "prog"}, NEW v, Returns(v), cardSlips = {}, cardSlips' = {},
         \/ v = "-" /\ card'.content = card.content
         \/ drv.op = "read" /\ v = card.content[drv.block] /\ card'.content = card.content
         \/ drv.op = "prog" /\ v = "written" /\ card'.content = [card.content EXCEPT ![drv.block] = drv.data]
  PROVE  Device!Next
<1>1. drv'.op = "none" /\ drv'.block = 0 /\ drv'.data = "-" /\ drv'.count = drv.count /\ got' = v
  BY ReturnsTo DEF CInv, CardTyped
<1>2. [op |-> drv'.op, block |-> drv'.block, data |-> drv'.data] = Device!Idle
      /\ [op |-> drv.op, block |-> drv.block, data |-> drv.data] # Device!Idle
  BY <1>1 DEF Device!Idle
<1>3. Device!Answer
  BY <1>1, <1>2 DEF Device!Answer, Device!Written
<1>. QED  BY <1>3 DEF Device!Next

LEMMA AskingSteps ==
  ASSUME CInv, cardSlips = {}, cardSlips' = {}, Load \/ Request
  PROVE  Device!Next
<1>1. drv \in Drivers /\ drv.op = "none" /\ drv.block = 0 /\ drv.data = "-"
      /\ drv.count \in Nat /\ drv.count <= card.sectors /\ (drv.at = "off" => drv.count = 0)
  <2>1. card.sectors \in Nat \ {0} /\ drv.count \in {0, card.sectors} /\ drv \in Drivers
    BY DEF CInv, CardTyped, Known
  <2>2. drv.at \in {"off", "loaded"}
    BY DEF Load, Request
  <2>3. drv.op = "none" /\ drv.block = 0 /\ drv.data = "-" /\ (drv.at = "off" => drv.count = 0)
    BY <2>2 DEF CInv, InCall
  <2>4. drv.count \in Nat /\ drv.count <= card.sectors
    BY <2>1
  <2>. QED  BY <2>1, <2>3, <2>4
<1>2. [op |-> drv.op, block |-> drv.block, data |-> drv.data] = Device!Idle
  BY <1>1 DEF Device!Idle
<1>3. CASE Load
  <2>1. drv'.op = "load" /\ drv'.block = 0 /\ drv'.data = "-" /\ drv'.count = 0 /\ got' = "-" /\ card' = card
    BY <1>3 DEF Load, NoCall
  <2>2. [op |-> drv'.op, block |-> drv'.block, data |-> drv'.data] \in Device!Requests
    BY <2>1 DEF Device!Requests, Device!Idle
  <2>3. Device!Ask
    BY <1>1, <1>2, <1>3, <2>1, <2>2 DEF Device!Ask, Load
  <2>. QED  BY <2>3 DEF Device!Next
<1>4. CASE Request
  <2>1. PICK b \in 0 .. drv.count - 1, d \in Data \cup {"-"} :
          drv' = [drv EXCEPT !.at = "cmd", !.op = IF d = "-" THEN "read" ELSE "prog", !.block = b, !.data = d]
    BY <1>4 DEF Request
  <2>2. drv'.op = (IF d = "-" THEN "read" ELSE "prog") /\ drv'.block = b /\ drv'.data = d /\ drv'.count = drv.count
        /\ got' = "-" /\ card' = card
    BY <1>1, <1>4, <2>1 DEF Request, Drivers
  <2>3. b \in Device!Blocks /\ b < drv.count
    <3>1. card.sectors \in Nat \ {0} /\ b \in 0 .. card.sectors - 1 /\ b < drv.count
      BY <1>1, <2>1 DEF CInv, CardTyped
    <3>. QED  BY <3>1, CapacityIs
  <2>4. [op |-> drv'.op, block |-> drv'.block, data |-> drv'.data] \in Device!Requests
    BY <2>2, <2>3, DataFacts DEF Device!Requests
  <2>5. Device!Ask
    BY <1>2, <2>2, <2>3, <2>4 DEF Device!Ask
  <2>. QED  BY <2>5 DEF Device!Next
<1>. QED  BY <1>3, <1>4

LEMMA WorkingSteps ==
  ASSUME CInv, cardSlips = {}, cardSlips' = {}, Command \/ Token \/ ReadData \/ Respond
  PROVE  [Device!Next]_Device!bvars
<1>1. drv \in Drivers /\ card \in CardOf(card.sectors) /\ card.sectors \in Nat \ {0}
  BY DEF CInv, CardTyped
<1>2. ASSUME NEW at \in DriverPlaces, Goes(at), got' = got, card' = card PROVE UNCHANGED Device!bvars
  BY <1>1, <1>2, GoesTo, Stutters
<1>3. CASE Command
  <2>1. drv.op \in {"read", "prog"} /\ card' = card
    BY <1>3 DEF Command, CInv, InCall
  <2>2. CASE Returns("-")
    BY <2>1, <2>2, CallAnswers
  <2>3. CASE Goes(IF drv.op = "read" THEN "token" ELSE "sent") /\ got' = got
    BY <1>2, <2>1, <2>3 DEF DriverPlaces
  <2>. QED  BY <1>3, <2>2, <2>3 DEF Command
<1>4. CASE Token
  <2>1. drv.op \in {"load", "read"} /\ card' = card
    BY <1>4 DEF Token, CInv, InCall
  <2>2. CASE Goes("data") /\ got' = got
    BY <1>2, <2>1, <2>2 DEF DriverPlaces
  <2>3. CASE drv.op = "load" /\ LoadFails
    BY <2>1, <2>3, LoadAnswers DEF LoadFails
  <2>4. CASE drv.op # "load" /\ Returns("-")
    BY <2>1, <2>4, CallAnswers
  <2>. QED  BY <1>4, <2>2, <2>3, <2>4 DEF Token
<1>5. CASE ReadData
  <2>1. drv.op \in {"load", "read"} /\ card' = card /\ drv.block = (IF drv.op = "load" THEN 0 ELSE drv.block)
        /\ drv.data = "-" /\ drv.at = "data"
    BY <1>5 DEF ReadData, CInv, InCall
  <2>2. CASE drv.op = "load" /\ Loaded
    <3>1. CASE LoadFails
      BY <2>1, <2>2, <3>1, LoadAnswers DEF LoadFails
    <3>2. CASE drv' = [drv EXCEPT !.at = "loaded", !.op = "none", !.count = Sectors] /\ got' = got
      <4>1. Sectors = card.sectors
        BY <2>2 DEF Loaded
      <4>2. drv'.op = "none" /\ drv'.block = 0 /\ drv'.data = "-" /\ drv'.count = card.sectors
        BY <1>1, <2>1, <2>2, <3>2, <4>1 DEF Drivers
      <4>3. [op |-> drv'.op, block |-> drv'.block, data |-> drv'.data] = Device!Idle
        BY <4>2 DEF Device!Idle
      <4>4. [op |-> drv.op, block |-> drv.block, data |-> drv.data] # Device!Idle
        BY <2>2 DEF Device!Idle
      <4>5. Device!Blocks = 0 .. drv'.count - 1
        BY <4>2, CapacityIs
      <4>6. UNCHANGED <<card.content, got>>
        BY <2>1, <3>2
      <4>. HIDE DEF Device!Blocks
      <4>7. Device!Answer
        BY <2>2, <4>3, <4>4, <4>5, <4>6 DEF Device!Answer
      <4>. QED  BY <4>7 DEF Device!Next
    <3>. QED  BY <2>2, <3>1, <3>2 DEF Loaded
  <2>3. CASE drv.op = "load" /\ LoadFails
    BY <2>1, <2>3, LoadAnswers DEF LoadFails
  <2>4. CASE drv.op # "load" /\ (Returns(card.content[Sector]) \/ Returns("-"))
    <3>1. Sector = drv.block
      BY <2>1, OwnPlace
    <3>. QED  BY <2>1, <2>4, <3>1, CallAnswers
  <2>. QED  BY <1>5, <2>2, <2>3, <2>4 DEF ReadData
<1>6. CASE Respond
  <2>1. drv'.op = drv.op /\ drv'.block = drv.block /\ drv'.data = drv.data /\ drv'.count = drv.count /\ got' = got
    BY ZenonT(60), <1>1, <1>6 DEF Respond, Drivers
  <2>2. card'.content = card.content
    BY <1>1, <1>6 DEF Respond, CardOf
  <2>. QED  BY <2>1, <2>2, Stutters
<1>. QED  BY <1>3, <1>4, <1>5, <1>6

LEMMA BusySteps ==
  ASSUME CInv, cardSlips = {}, cardSlips' = {}, Busy
  PROVE  Device!Next
<1>1. drv.at = "busy" /\ drv.op = "prog" /\ drv.data \in Data /\ Sector = drv.block
      /\ card.taken = (IF drv.good THEN drv.data ELSE "-")
  BY OwnPlace DEF Busy, CInv, InCall, Writing
<1>2. card' = (IF card.taken = "-" THEN card ELSE Kept) /\ Returns(IF drv.good THEN "written" ELSE "-")
  BY DEF Busy
<1>3. CASE drv.good
  <2>1. card.taken = drv.data /\ card.taken # "-"
    BY <1>1, <1>3, DataFacts
  <2>2. card'.content = [card.content EXCEPT ![drv.block] = drv.data]
    BY <1>1, <1>2, <2>1, KeptIs
  <2>. QED  BY <1>1, <1>2, <1>3, <2>2, CallAnswers
<1>4. CASE ~drv.good
  BY <1>1, <1>2, <1>4, CallAnswers
<1>. QED  BY <1>3, <1>4

LEMMA ResetSteps ==
  ASSUME CInv, cardSlips = {}, cardSlips' = {}, CardReset
  PROVE  Device!Next
<1>1. drv'.op = "none" /\ drv'.block = 0 /\ drv'.data = "-" /\ drv'.count = 0 /\ got' = "-"
  BY NoCallIs DEF CardReset
<1>2. [op |-> drv'.op, block |-> drv'.block, data |-> drv'.data] = Device!Idle
  BY <1>1 DEF Device!Idle
<1>3. card'.content = card.content \/ (drv.op = "prog" /\ card'.content = [card.content EXCEPT ![drv.block] = drv.data])
  <2>1. CASE card.taken = "-"
    BY <2>1 DEF CardReset
  <2>2. CASE card.taken # "-"
    <3>1. drv.at = "busy" /\ drv.op = "prog" /\ card.taken = drv.data /\ Sector = drv.block
      BY <2>2, OwnPlace DEF CInv, InCall, Writing
    <3>. QED  BY <2>2, <3>1, KeptIs, DroppedIs DEF CardReset
  <2>. QED  BY <2>1, <2>2
<1>4. Device!Restart
  BY <1>1, <1>2, <1>3 DEF Device!Restart, Device!Written
<1>. QED  BY <1>4 DEF Device!Next

LEMMA DeviceSteps ==
  ASSUME CInv, [CardNext]_cardVars
  PROVE  [Device!Next]_Device!bvars
<1>1. CASE cardSlips' # {}
  BY <1>1, Excused
<1>2. CASE cardSlips' = {}
  <2>1. cardSlips = {}
    <3>1. CASE DriverStep
      BY <1>2, <3>1 DEF DriverStep, GoIdle, SendIfCond, SendOpCond, ReadOcr, ReadCsd, Command, Token, ReadData,
                        Loaded, Respond, Busy
    <3>2. CASE Load \/ Request \/ TakeOut \/ PutIn \/ CardReset \/ UNCHANGED cardVars
      BY <1>2, <3>2 DEF Load, Request, TakeOut, PutIn, CardReset, cardVars
    <3>. QED  BY SMTT(40), <3>1, <3>2 DEF CardNext
  <2>2. CASE DriverStep
    BY <1>2, <2>1, <2>2, LoadingSteps, WorkingSteps, BusySteps DEF DriverStep
  <2>3. CASE Load \/ Request \/ CardReset
    BY <1>2, <2>1, <2>3, AskingSteps, ResetSteps
  <2>4. CASE TakeOut \/ PutIn
    BY <1>2, <2>1, <2>4, MovedKeeps, Stutters
  <2>5. CASE UNCHANGED cardVars
    BY <1>2, <2>1, <2>5, Stutters DEF cardVars
  <2>. QED  BY <2>2, <2>3, <2>4, <2>5 DEF CardNext
<1>. QED  BY <1>1, <1>2

\* The driver implements BlockDevice for cards of any kind and size: what it reports written is
\* in its place and what it gives is what is there, through any faults, tries that run out,
\* removals and resets, until it slips.
THEOREM CardImplements == CardSpec => CardIsBlockDevice
<1>1. CardInit => Device!Init
  <2>. SUFFICES ASSUME CardInit PROVE Device!Init
    OBVIOUS
  <2>1. drv = NoCall /\ got = "-" /\ cardSlips = {}
    BY DEF CardInit
  <2>2. card.content \in [DOMAIN card.content -> Contents]
    <3>1. card.content \in [0 .. card.sectors - 1 -> Contents]
      BY InitCard DEF CInv, CardTyped, CardOf
    <3>. QED  BY <3>1
  <2>. QED  BY <2>1, <2>2, NoCallIs DEF Device!Init, Device!Idle, Device!Blocks
<1>2. CardInit => CInv
  BY InitCard
<1>3. CInv /\ [CardNext]_cardVars => CInv'
  BY CardNextKeeps
<1>4. CInv /\ [CardNext]_cardVars => [Device!Next]_Device!bvars
  BY DeviceSteps
<1>. QED  BY <1>1, <1>2, <1>3, <1>4, PTL DEF CardSpec, Device!Spec, CardIsBlockDevice
-----------------------------------------------------------------------------
(* Types, whatever slips. *)

\* A card without power answers nothing, the driver counts no block the card has not, and what a read waits for is
\* on the card: it took the command.
Bounded ==
  /\ card.power # "off" => card.in
  /\ drv.count <= card.sectors
  /\ drv.op = "read" /\ drv.at \in {"token", "data"} => Sector \in 0 .. card.sectors - 1
InRange ==
  /\ got \in Contents \cup {"-", "written"} /\ cardFaults \in 0 .. CardFaults /\ cardCalls \in 0 .. CardCalls
SdInv == CInv /\ Bounded /\ InRange

\* The kind and the size of a card are its own.
LEMMA SameCard ==
  ASSUME CInv, [CardNext]_cardVars
  PROVE  card'.kind = card.kind /\ card'.sectors = card.sectors
<1>1. card \in CardOf(card.sectors) /\ card.sectors \in Nat \ {0}
  BY DEF CInv, CardTyped
<1>2. CASE GoIdle \/ SendIfCond \/ SendOpCond \/ Respond \/ PutIn
  BY <1>1, <1>2 DEF GoIdle, SendIfCond, SendOpCond, Respond, PutIn, CardOf
<1>3. CASE Busy \/ CardReset
  BY <1>3, KeptIs, DroppedIs DEF Busy, CardReset
<1>4. CASE TakeOut
  <2>1. CASE card.taken = "-"
    <3>1. card' = [card EXCEPT !.in = FALSE, !.power = "off", !.told = FALSE]
      BY <1>4, <2>1 DEF TakeOut
    <3>. QED  BY <1>1, <3>1 DEF CardOf
  <2>2. CASE card.taken # "-"
    <3>1. PICK after \in {Kept, Dropped} : card' = [after EXCEPT !.in = FALSE, !.power = "off", !.told = FALSE]
      BY <1>4, <2>2 DEF TakeOut
    <3>2. after \in CardOf(card.sectors) /\ after.sectors = card.sectors /\ after.kind = card.kind
      BY <2>2, KeptIs, DroppedIs
    <3>. QED  BY <3>1, <3>2 DEF CardOf
  <2>. QED  BY <2>1, <2>2
<1>5. CASE Load \/ Request \/ ReadOcr \/ ReadCsd \/ Command \/ Token \/ ReadData \/ UNCHANGED cardVars
  BY <1>5 DEF Load, Request, ReadOcr, ReadCsd, Command, Token, ReadData, cardVars
<1>. QED  BY <1>2, <1>3, <1>4, <1>5 DEF CardNext, DriverStep

\* A card that has power is in.
LEMMA PowerKeeps ==
  ASSUME CInv, Bounded, [CardNext]_cardVars
  PROVE  card'.power # "off" => card'.in
<1>1. card \in CardOf(card.sectors) /\ (card.power # "off" => card.in)
  BY DEF CInv, CardTyped, Bounded
<1>2. CASE GoIdle \/ SendIfCond \/ Respond \/ PutIn
  BY <1>1, <1>2 DEF GoIdle, SendIfCond, Respond, PutIn, CardOf
<1>3. CASE SendOpCond
  <2>1. PICK r \in Answers, a \in {"idle", "ok"} :
          /\ Answered(r, a, card.power # "off") /\ card' = IF r = "ok" THEN [card EXCEPT !.power = "ready"] ELSE card
    BY <1>3 DEF SendOpCond
  <2>2. r = "ok" => card.power # "off"
    BY <2>1 DEF Answered
  <2>. QED  BY <1>1, <2>1, <2>2 DEF CardOf
<1>4. card.taken # "-" => Kept.power = card.power /\ Kept.in = card.in
  BY <1>1 DEF Kept, CardOf
<1>5. Dropped.power = card.power /\ Dropped.in = card.in
  BY <1>1 DEF Dropped, CardOf
<1>6. CASE Busy \/ CardReset
  BY <1>1, <1>4, <1>5, <1>6 DEF Busy, CardReset
<1>7. CASE TakeOut
  <2>1. CASE card.taken = "-"
    <3>1. card' = [card EXCEPT !.in = FALSE, !.power = "off", !.told = FALSE]
      BY <1>7, <2>1 DEF TakeOut
    <3>. QED  BY <1>1, <3>1 DEF CardOf
  <2>2. CASE card.taken # "-"
    <3>1. PICK after \in {Kept, Dropped} : card' = [after EXCEPT !.in = FALSE, !.power = "off", !.told = FALSE]
      BY <1>7, <2>2 DEF TakeOut
    <3>2. after \in CardOf(card.sectors)
      BY <2>2, KeptIs, DroppedIs
    <3>. QED  BY <3>1, <3>2 DEF CardOf
  <2>. QED  BY <2>1, <2>2
<1>8. CASE Load \/ Request \/ ReadOcr \/ ReadCsd \/ Command \/ Token \/ ReadData \/ UNCHANGED cardVars
  BY <1>1, <1>8 DEF Load, Request, ReadOcr, ReadCsd, Command, Token, ReadData, cardVars
<1>. QED  BY <1>2, <1>3, <1>6, <1>7, <1>8 DEF CardNext, DriverStep

\* The capacity that is kept is no more than the card's: cutting it to fewer bits leaves less.
LEMMA SectorsAtMost ==
  ASSUME card.sectors \in Nat \ {0}
  PROVE  Sectors \in 0 .. card.sectors
<1>1. SizeRange \in Nat \ {0}
  BY CardSizes
<1>2. card.sectors % SizeRange \in 0 .. SizeRange - 1 /\ card.sectors % SizeRange <= card.sectors
  <2>1. card.sectors = SizeRange * (card.sectors \div SizeRange) + (card.sectors % SizeRange)
        /\ card.sectors % SizeRange \in 0 .. SizeRange - 1 /\ card.sectors \div SizeRange \in Nat
    BY SMTT(40), <1>1
  <2>2. SizeRange * (card.sectors \div SizeRange) \in Nat
    BY <1>1, <2>1
  <2>. QED  BY <2>1, <2>2
<1>. QED  BY <1>1, <1>2 DEF Sectors

LEMMA CountKeeps ==
  ASSUME CInv, Bounded, [CardNext]_cardVars
  PROVE  drv'.count \in 0 .. card.sectors
<1>1. drv \in Drivers /\ card.sectors \in Nat \ {0} /\ drv.count \in 0 .. card.sectors /\ 0 \in 0 .. card.sectors
  BY DEF CInv, CardTyped, Drivers, Bounded
<1>2. NoCall.count = 0
  BY NoCallIs
<1>3. \A n : Again(n) => drv'.count \in {drv.count, 0}
  BY <1>1, <1>2, AgainOrFails DEF LoadFails
<1>4. LoadFails => drv'.count = 0
  BY <1>2 DEF LoadFails
<1>5. \A v : Returns(v) => drv'.count = drv.count
  BY <1>1, ReturnsTo
<1>6. \A p \in DriverPlaces : Goes(p) => drv'.count = drv.count
  BY <1>1, GoesTo
<1>7. CASE GoIdle \/ SendIfCond \/ SendOpCond \/ ReadCsd \/ Command \/ Token
  <2>1. \E n, v : \E p \in DriverPlaces : Goes(p) \/ Again(n) \/ LoadFails \/ Returns(v)
                                      \/ drv' = [drv EXCEPT !.at = "acmd41", !.try = 0, !.sd_type = "Ver1"]
    BY <1>7 DEF GoIdle, SendIfCond, SendOpCond, ReadCsd, Command, Token, DriverPlaces
  <2>2. drv' = [drv EXCEPT !.at = "acmd41", !.try = 0, !.sd_type = "Ver1"] => drv'.count = drv.count
    BY <1>1 DEF Drivers
  <2>. QED  BY <1>1, <1>3, <1>4, <1>5, <1>6, <2>1, <2>2
<1>8. CASE ReadOcr
  <2>1. LoadFails \/ drv' = [drv EXCEPT !.at = "cmd9", !.sd_type = IF card.kind = "High" THEN "High" ELSE "Ver2"]
    BY <1>8 DEF ReadOcr
  <2>. QED  BY <1>1, <1>4, <2>1 DEF Drivers
<1>9. CASE ReadData
  <2>1. Loaded \/ LoadFails \/ \E v : Returns(v)
    BY <1>9 DEF ReadData
  <2>2. Loaded => drv'.count \in 0 .. card.sectors
    <3>1. Loaded => LoadFails \/ drv' = [drv EXCEPT !.at = "loaded", !.op = "none", !.count = Sectors]
      BY DEF Loaded
    <3>2. drv' = [drv EXCEPT !.at = "loaded", !.op = "none", !.count = Sectors] => drv'.count = Sectors
      BY <1>1 DEF Drivers
    <3>. QED  BY <1>1, <1>4, <3>1, <3>2, SectorsAtMost
  <2>. QED  BY <1>1, <1>4, <1>5, <2>1, <2>2
<1>10. CASE Busy
  <2>1. \E v : Returns(v)
    BY <1>10 DEF Busy
  <2>. QED  BY <1>1, <1>5, <2>1
<1>11. CASE Load \/ CardReset
  BY <1>1, <1>2, <1>11 DEF Load, CardReset, NoCall
<1>12. CASE Request \/ Respond
  BY <1>1, <1>12 DEF Request, Respond, Drivers
<1>13. CASE TakeOut \/ PutIn \/ UNCHANGED cardVars
  BY <1>1, <1>13 DEF TakeOut, PutIn, cardVars
<1>. QED  BY <1>7, <1>8, <1>9, <1>10, <1>11, <1>12, <1>13 DEF CardNext, DriverStep

\* A read is waited for only after the card took the command, with an address it has.
LEMMA SectorKeeps ==
  ASSUME CInv, Bounded, [CardNext]_cardVars, drv'.op = "read", drv'.at \in {"token", "data"}
  PROVE  Sector' \in 0 .. card'.sectors - 1
<1>1. drv \in Drivers /\ card.sectors \in Nat \ {0} /\ card'.kind = card.kind /\ card'.sectors = card.sectors
  BY SameCard DEF CInv, CardTyped
<1>2. drv'.sd_type = drv.sd_type /\ drv'.block = drv.block => Sector' = Sector
  BY <1>1 DEF Sector, Address
<1>3. Sector \in Nat
  <2>1. BlockLen \in Nat \ {0} /\ drv.block \in Nat /\ drv.block * BlockLen \in Nat
    BY <1>1, CardSizes DEF Drivers
  <2>. QED  BY <2>1 DEF Sector, Address
<1>4. CASE Command
  <2>1. PICK r \in Answers :
          /\ Answered(r, IF Sector < card.sectors THEN "ok" ELSE "error", On)
          /\ IF r = "ok" THEN Goes(IF drv.op = "read" THEN "token" ELSE "sent") ELSE Returns("-")
    BY <1>4 DEF Command
  <2>2. r = "ok"
    BY <1>1, <2>1, ReturnsTo
  <2>3. Sector < card.sectors
    BY <2>1, <2>2 DEF Answered
  <2>4. drv'.sd_type = drv.sd_type /\ drv'.block = drv.block
    BY <1>1, <2>1, <2>2, GoesTo DEF DriverPlaces
  <2>. QED  BY <1>1, <1>2, <1>3, <2>3, <2>4
<1>5. CASE Token
  <2>1. ~LoadFails /\ ~Returns("-")
    BY <1>1, NoCallIs, ReturnsTo DEF LoadFails
  <2>2. drv.at = "token" /\ Goes("data")
    BY <1>5, <2>1 DEF Token
  <2>3. drv'.sd_type = drv.sd_type /\ drv'.block = drv.block /\ drv'.op = drv.op
    BY <1>1, <2>2, GoesTo DEF DriverPlaces
  <2>. QED  BY <1>1, <1>2, <2>2, <2>3 DEF Bounded
<1>6. CASE ReadData \/ Busy
  <2>1. \A v : ~Returns(v)
    BY <1>1, ReturnsTo
  <2>2. ~LoadFails
    BY NoCallIs DEF LoadFails
  <2>3. ~Loaded
    BY <1>1, <2>2 DEF Loaded, Drivers
  <2>. QED  BY <1>6, <2>1, <2>2, <2>3 DEF ReadData, Busy
<1>7. CASE GoIdle \/ SendIfCond \/ SendOpCond \/ ReadOcr \/ ReadCsd
  <2>1. drv.op = "load"
    BY <1>7 DEF GoIdle, SendIfCond, SendOpCond, ReadOcr, ReadCsd, CInv, InCall
  <2>2. drv'.op \in {"load", "none"}
    <3>1. \A n : Again(n) => drv'.op \in {"load", "none"}
      BY <1>1, <2>1, AgainOrFails, NoCallIs DEF LoadFails
    <3>2. Goes("cmd8") \/ Goes("acmd41") \/ Goes("cmd58") \/ Goes("cmd9") \/ Goes("token") => drv'.op = "load"
      BY <1>1, <2>1, GoesTo DEF DriverPlaces
    <3>3. LoadFails => drv'.op = "none"
      BY NoCallIs DEF LoadFails
    <3>4. CASE GoIdle \/ SendOpCond
      BY <3>1, <3>2, <3>4 DEF GoIdle, SendOpCond
    <3>5. CASE SendIfCond
      <4>1. (\E n : Again(n)) \/ Goes("acmd41") \/ drv' = [drv EXCEPT !.at = "acmd41", !.try = 0, !.sd_type = "Ver1"]
        BY <3>5 DEF SendIfCond
      <4>2. drv' = [drv EXCEPT !.at = "acmd41", !.try = 0, !.sd_type = "Ver1"] => drv'.op = "load"
        BY <1>1, <2>1 DEF Drivers
      <4>. QED  BY <3>1, <3>2, <4>1, <4>2
    <3>6. CASE ReadOcr \/ ReadCsd
      BY <1>1, <2>1, <3>2, <3>3, <3>6 DEF ReadOcr, ReadCsd, Drivers
    <3>. QED  BY <1>7, <3>4, <3>5, <3>6
  <2>. QED  BY <2>2
<1>8. CASE Load \/ Request \/ Respond \/ CardReset
  <2>1. CASE Load \/ CardReset
    BY <2>1, NoCallIs DEF Load, CardReset, NoCall
  <2>2. CASE Request \/ Respond
    BY ZenonT(60), <1>1, <2>2 DEF Request, Respond, Drivers
  <2>. QED  BY <1>8, <2>1, <2>2
<1>9. CASE TakeOut \/ PutIn \/ UNCHANGED cardVars
  BY <1>1, <1>2, <1>9 DEF TakeOut, PutIn, cardVars, Bounded
<1>. QED  BY <1>4, <1>5, <1>6, <1>7, <1>8, <1>9 DEF CardNext, DriverStep

LEMMA InRangeKeeps ==
  ASSUME CInv, Bounded, InRange, [CardNext]_cardVars
  PROVE  InRange'
<1>1. cardFaults \in 0 .. CardFaults /\ cardCalls \in 0 .. CardCalls /\ CardFaults \in Nat /\ CardCalls \in Nat
  BY CardSizes DEF InRange
<1>2. cardFaults' \in {cardFaults, cardFaults - 1} /\ (cardFaults' # cardFaults => cardFaults > 0)
  <2>1. CASE GoIdle \/ SendIfCond \/ SendOpCond \/ ReadOcr \/ ReadCsd \/ Command
    BY <2>1 DEF GoIdle, SendIfCond, SendOpCond, ReadOcr, ReadCsd, Command, Answered
  <2>2. CASE Token \/ ReadData \/ Respond \/ Busy
    BY <2>2 DEF Token, ReadData, Respond, Busy
  <2>3. CASE Load \/ Request \/ TakeOut \/ PutIn \/ CardReset \/ UNCHANGED cardVars
    BY <2>3 DEF Load, Request, TakeOut, PutIn, CardReset, cardVars
  <2>. QED  BY <2>1, <2>2, <2>3 DEF CardNext, DriverStep
<1>3. cardCalls' \in {cardCalls, cardCalls - 1} /\ (cardCalls' # cardCalls => cardCalls > 0)
  <2>1. CASE DriverStep
    BY <2>1 DEF DriverStep, GoIdle, SendIfCond, SendOpCond, ReadOcr, ReadCsd, Command, Token, ReadData, Respond, Busy
  <2>2. CASE Load \/ Request \/ TakeOut \/ PutIn \/ CardReset \/ UNCHANGED cardVars
    BY <2>2 DEF Load, Request, TakeOut, PutIn, CardReset, cardVars
  <2>. QED  BY SMTT(40), <2>1, <2>2 DEF CardNext
<1>4. got' \in Contents \cup {"-", "written"}
  <2>1. got \in Contents \cup {"-", "written"}
    BY DEF InRange
  <2>2. \A n : Again(n) => got' = got
    BY SMTT(40) DEF Again, LoadFails
  <2>3. CASE GoIdle \/ SendIfCond \/ SendOpCond \/ ReadOcr \/ ReadCsd \/ Command \/ Token \/ Respond
    BY <2>1, <2>2, <2>3 DEF GoIdle, SendIfCond, SendOpCond, ReadOcr, ReadCsd, Command, Token, Respond, LoadFails, Returns
  <2>4. CASE ReadData
    <3>1. CASE drv.op = "load"
      BY <2>1, <2>4, <3>1 DEF ReadData, Loaded, LoadFails
    <3>2. CASE drv.op # "load"
      <4>1. drv.at = "data" /\ drv.op = "read" /\ Sector \in 0 .. card.sectors - 1
        BY <2>4, <3>2 DEF ReadData, CInv, InCall, Bounded
      <4>2. card.content[Sector] \in Contents
        BY <4>1 DEF CInv, CardTyped, CardOf
      <4>. QED  BY <2>4, <3>2, <4>2 DEF ReadData, Returns
    <3>. QED  BY <3>1, <3>2
  <2>5. CASE Busy
    BY <2>5 DEF Busy, Returns
  <2>6. CASE Load \/ Request \/ TakeOut \/ PutIn \/ CardReset \/ UNCHANGED cardVars
    BY <2>1, <2>6 DEF Load, Request, TakeOut, PutIn, CardReset, cardVars
  <2>. QED  BY <2>3, <2>4, <2>5, <2>6 DEF CardNext, DriverStep
<1>. QED  BY <1>1, <1>2, <1>3, <1>4 DEF InRange

LEMMA InitSd == CardInit => SdInv
<1>. SUFFICES ASSUME CardInit PROVE SdInv
  OBVIOUS
<1>1. CInv
  BY InitCard
<1>2. card.power = "off" /\ drv.count = 0 /\ drv.op = "none" /\ card.sectors \in Nat \ {0}
  BY <1>1, NoCallIs DEF CardInit, CInv, CardTyped
<1>3. Bounded
  BY <1>2 DEF Bounded
<1>4. InRange
  BY CardSizes DEF CardInit, InRange
<1>. QED  BY <1>1, <1>3, <1>4 DEF SdInv

LEMMA SdNextKeeps ==
  ASSUME SdInv, [CardNext]_cardVars
  PROVE  SdInv'
<1>1. CInv' /\ InRange'
  BY CardNextKeeps, InRangeKeeps DEF SdInv
<1>2. drv'.count \in 0 .. card.sectors /\ card'.sectors = card.sectors /\ card.sectors \in Nat
  BY CountKeeps, SameCard DEF SdInv, CInv, CardTyped
<1>3. Bounded'
  BY <1>2, PowerKeeps, SectorKeeps DEF SdInv, Bounded
<1>. QED  BY <1>1, <1>3 DEF SdInv

LEMMA SdTypes == SdInv => CardTypeOK
<1>. SUFFICES ASSUME SdInv PROVE CardTypeOK
  OBVIOUS
<1>1. card \in CardOf(card.sectors) /\ card.sectors \in Nat \ {0} /\ drv \in Drivers
  BY DEF SdInv, CInv, CardTyped
<1>2. card.content \in [0 .. card.sectors - 1 -> Contents] /\ card.power \in {"off", "idle", "ready"}
      /\ card.taken \in Contents \cup {"-"}
  BY <1>1 DEF CardOf
<1>3. (card.power # "off" => card.in) /\ (card.taken # "-" => drv.at = "busy")
  BY DEF SdInv, Bounded, CInv, Writing
<1>4. drv.at \in DriverPlaces /\ drv.sd_type \in {"Unk", "Ver1", "Ver2", "High"} /\ drv.count \in 0 .. card.sectors
  BY <1>1 DEF Drivers, Kinds, SdInv, Bounded
<1>5. (drv.op = "none") = (drv.at \in {"off", "loaded"}) /\ (drv.op \in {"read", "prog"} => drv.block < drv.count)
  BY <1>4 DEF SdInv, CInv, InCall, DriverPlaces
<1>. QED  BY <1>2, <1>3, <1>4, <1>5 DEF CardTypeOK, DriverPlaces, SdInv, InRange

\* The driver never counts a block the card has not, gives as read only what a block of a card held, and is in a call just
\* when it waits for the card, for cards of any kind and size, whatever it takes them for.
THEOREM TypesCorrect == CardSpec => []CardTypeOK
<1>1. CardInit => SdInv
  BY InitSd
<1>2. SdInv /\ [CardNext]_cardVars => SdInv'
  BY SdNextKeeps
<1>3. SdInv => CardTypeOK
  BY SdTypes
<1>. QED  BY <1>1, <1>2, <1>3, PTL DEF CardSpec
=============================================================================
