---------------------------------- MODULE Seeds ----------------------------------
(***************************************************************************)
(* The data every new server starts with: the plots of StoreService and    *)
(* the script of BatsService.onModuleInit, of which the tests of the       *)
(* repository run only the first line.  A harvest that is refused fails    *)
(* the start-up, a refused transfer skips the rest (see Intake, where the  *)
(* script meets restarts).                                                 *)
(*                                                                         *)
(* Coordinates are in units of 0.000025 degrees, areas in square metres,   *)
(* times in minutes since 2026-07-04 in the time zone of the script.       *)
(***************************************************************************)
EXTENDS Geometry, Rules, SequencesExt

Degrees(whole, millionths) == (whole * 1000000 + millionths) \div 25

\* A plot is a rectangle, given by its south-west corner and its size.
Field(crop, area, lat, lng, height, width) ==
    [crop |-> crop, area |-> area, status |-> "active", farmer |-> "FARMER-0001",
     polygon |-> << <<lng, lat>>, <<lng + width, lat>>, <<lng + width, lat + height>>, <<lng, lat + height>> >>]

seedPlots ==
    [dlk1 |-> Field("durian", 25265, Degrees(12, 678175), Degrees(108, 122675), 58, 58),
     tg2  |-> Field("mango", 32000, Degrees(10, 334100), Degrees(105, 892100), 96, 96),
     dlk3 |-> Field("coffee", 48000, Degrees(12, 821100), Degrees(108, 81200), 96, 92),
     bth4 |-> Field("dragon_fruit", 18500, Degrees(10, 891200), Degrees(108, 12300), 92, 88),
     btr5 |-> Field("pomelo", 21000, Degrees(10, 281200), Degrees(106, 331200), 92, 92),
     hy6  |-> Field("longan", 28500, Degrees(20, 821000), Degrees(105, 981000), 100, 100),
     ld7  |-> Field("avocado", 35000, Degrees(11, 546000), Degrees(107, 821000), 100, 100),
     bd8  |-> Field("mangosteen", 19500, Degrees(10, 921000), Degrees(106, 681000), 100, 100)]

At(day, hour, minute) == ((day - 4) * 24 + hour) * 60 + minute

HarvestOf(plot, kg, at, lat, lng) ==
    [plot |-> plot, kg |-> kg, at |-> at, location |-> <<lng, lat>>, photo |-> plot]

Harvested ==
    <<HarvestOf("dlk1", 1250, At(4, 8, 30), Degrees(12, 678900), Degrees(108, 123400)),
      HarvestOf("tg2", 2400, At(5, 9, 15), Degrees(10, 335000), Degrees(105, 893000)),
      HarvestOf("dlk3", 5200, At(6, 14, 20), Degrees(12, 822000), Degrees(108, 82000)),
      HarvestOf("bth4", 3100, At(7, 10, 0), Degrees(10, 892000), Degrees(108, 13000)),
      HarvestOf("btr5", 1800, At(8, 11, 45), Degrees(10, 282000), Degrees(106, 332000)),
      HarvestOf("hy6", 3600, At(8, 14, 30), Degrees(20, 822000), Degrees(105, 982000)),
      HarvestOf("ld7", 4100, At(9, 8, 15), Degrees(11, 547000), Degrees(107, 822000)),
      HarvestOf("bd8", 2200, At(9, 9, 30), Degrees(10, 922000), Degrees(106, 682000))>>

\* Prefixes of lot names, as CROP_IDENTITY has them and, turned around, as
\* resolveOrRecoverBatch does, with the plot it gives to a lot it makes up.
Prefix == [durian |-> "SR", mango |-> "XC", coffee |-> "CP", dragon_fruit |-> "TL", pomelo |-> "BD",
           longan |-> "HY", avocado |-> "LD", mangosteen |-> "MC"]
cropMap == [SR |-> "durian", XC |-> "mango", CP |-> "coffee", TL |-> "dragon_fruit", BD |-> "pomelo",
            HY |-> "longan", LD |-> "avocado", MC |-> "mangosteen"]
plotMap == [SR |-> "dlk1", XC |-> "tg2", CP |-> "dlk3", TL |-> "bth4", BD |-> "btr5", HY |-> "hy6",
            LD |-> "ld7", MC |-> "bd8"]

Day(at) == at \div (24 * 60) + 4

\* The name of a lot: prefix, day, number.
LotId(plot, at, number) == <<Prefix[seedPlots[plot].crop], Day(at), number>>

Move(prefix, day, number, status, kg, at) ==
    [lot |-> <<prefix, day, number>>, status |-> status, kg |-> kg, at |-> at]

Moves ==
    <<Move("SR", 4, 1, "collected", 1250, At(4, 14, 15)), Move("SR", 4, 1, "packed", 1250, At(5, 9, 0)),
      Move("SR", 4, 1, "shipped", 1250, At(5, 16, 45)),
      Move("XC", 5, 2, "collected", 2400, At(5, 13, 0)), Move("XC", 5, 2, "packed", 2400, At(6, 8, 30)),
      Move("CP", 6, 3, "collected", 5200, At(6, 18, 0)),
      Move("BD", 8, 5, "collected", 1800, At(8, 15, 0)), Move("BD", 8, 5, "packed", 1800, At(9, 8, 0)),
      Move("BD", 8, 5, "shipped", 1800, At(9, 11, 30)),
      Move("HY", 8, 6, "collected", 3600, At(8, 17, 0)), Move("HY", 8, 6, "packed", 3600, At(9, 9, 0)),
      Move("HY", 8, 6, "shipped", 3600, At(9, 14, 0)),
      Move("LD", 9, 7, "collected", 4100, At(9, 11, 0)), Move("LD", 9, 7, "packed", 4100, At(9, 15, 0)),
      Move("MC", 9, 8, "collected", 2200, At(9, 12, 0))>>

\* The script as a state: the lots so far and the lines done.
Started == [lots |-> <<>>, line |-> 0]

MaxYieldKg(plot) == seedPlots[plot].area * 2

\* What validateHarvest sees of line i.
HarvestInput(lots, h) ==
    LET near(l) == LET d == l.at - h.at IN d < 10 /\ d > -10
        kgs == MapThenSumSet(LAMBDA j : lots[j].kg, {j \in DOMAIN lots : lots[j].plot = h.plot}) IN
    [plotActive |-> seedPlots[h.plot].status = "active", geofence |-> "unknown",
     inside |-> PointInPolygon(h.location, seedPlots[h.plot].polygon),
     seasonal |-> kgs, kg |-> h.kg, maxYield |-> MaxYieldKg(h.plot),
     reused |-> \E j \in DOMAIN lots : lots[j].photo = h.photo,
     nearby |-> Cardinality({j \in DOMAIN lots : near(lots[j])}),
     actor |-> [known |-> TRUE, active |-> TRUE, role |-> "FARMER",
                owns |-> seedPlots[h.plot].farmer = "FARMER-0001"],
     integrity |-> "none", accuracy |-> -1]

HarvestLine(s) == Harvested[s.line + 1]
MoveLine(s) == Moves[s.line + 1 - Len(Harvested)]
Lot(s, id) == CHOOSE j \in DOMAIN s.lots : s.lots[j].id = id

\* One line of the script; a refused line is the end of it.
Verdict(s) ==
    IF s.line < Len(Harvested) THEN ValidateHarvest(HarvestInput(s.lots, HarvestLine(s)))
    ELSE LET m == MoveLine(s)
             lot == s.lots[Lot(s, m.lot)] IN ValidateTransfer(lot.status, m.status, lot.kg, m.kg)

RunLine(s) ==
    IF s.line < Len(Harvested)
    THEN LET h == HarvestLine(s) IN
         [lots |-> Append(s.lots, [id |-> LotId(h.plot, h.at, Len(s.lots) + 1), plot |-> h.plot, kg |-> h.kg,
                                   at |-> h.at, photo |-> h.photo, status |-> "harvested"]),
          line |-> s.line + 1]
    ELSE LET m == MoveLine(s) IN
         [lots |-> [s.lots EXCEPT ![Lot(s, m.lot)].status = m.status, ![Lot(s, m.lot)].at = m.at],
          line |-> s.line + 1]

(***************************************************************************)
(* Properties.                                                             *)
(***************************************************************************)

\* The start-up of an empty server does not fail and skips nothing: every line
\* is accepted without any issue, and a transfer names a lot that is there, with
\* a later time than what happened to it before.
ScriptIsAccepted(s) ==
    s.line < Len(Harvested) + Len(Moves) =>
        /\ s.line >= Len(Harvested) =>
              \E lot \in Range(s.lots) : lot.id = MoveLine(s).lot /\ lot.at < MoveLine(s).at
        /\ Verdict(s).issues = {}

Apart(r, s) == r[3][1] < s[1][1] \/ s[3][1] < r[1][1] \/ r[3][2] < s[1][2] \/ s[3][2] < r[1][2]

\* The plots of a new server would be accepted by createPlot: shapes that do
\* not cross themselves, an area, and no field on another.
PlotsAreValid ==
    \A p, q \in DOMAIN seedPlots :
        /\ ValidShape(seedPlots[p].polygon) /\ seedPlots[p].area > 0
        /\ p # q => Apart(seedPlots[p].polygon, seedPlots[q].polygon)

\* The tables of lot names agree: a lot made up for an unknown name is of the
\* crop its prefix stands for, and on a plot where that crop grows.
NamesAgree ==
    /\ \A crop \in DOMAIN Prefix : cropMap[Prefix[crop]] = crop
    /\ \A prefix \in DOMAIN plotMap : seedPlots[plotMap[prefix]].crop = cropMap[prefix]
=============================================================================
