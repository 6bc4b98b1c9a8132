----------------------------- MODULE UapsdProofs -----------------------------
(***************************************************************************)
(* Proofs about Uapsd: the tables of function pointers are never read      *)
(* beyond their rows and the retry counters stay within one of their       *)
(* limits (TypeOK), the receiver misses a signal for good in the two cases *)
(* of MissesLastSignalOnly only, the console never runs ahead of the       *)
(* station (ConsoleFollows), and on a good link nobody sends a RESET       *)
(* (NoReset).                                                              *)
(***************************************************************************)
EXTENDS Uapsd, SequenceTheorems, FiniteSetTheorems, TLAPS

-----------------------------------------------------------------------------
(* The inductive invariant of the station.                                 *)

(* The indices into the tables are inside the rows; the function that the  *)
(* sender runs is the one its state names, and the test it belongs to no   *)
(* longer changes once the sender is past the first function.              *)
RowsInv ==
  /\ dut.tx_state < Len(StationRow)
  /\ dut.rx_state < Len(StationReceives)
  /\ dut.tx_state > 0 => dut.rx_state > 0
  /\ tx.pc = "act" =>
       IF dut.tx_state = 0 THEN tx.f.f = "start"
       ELSE tx.f = StationRow[dut.tx_state + 1]

(* Whoever has gone over a limit stops.                                    *)
CountInv ==
  /\ dut.num_retry > MAX_RETRY => dut.stop /\ rx \in {"loop", "join", "done"}
  /\ dut.tx_stop_cnt > MAX_STOP =>
       tx.pc \in {"signal", "count"} \/ (dut.stop /\ tx.pc \in {"loop", "done"})

(* Who may have stopped the stream, by where the receiver is.              *)
StopInv ==
  /\ tx.pc = "done" => dut.stop
  /\ rx \in {"lock", "wait", "woken"} => dut.rx_state > 0
  /\ rx = "start" => dut.rx_state = 0
  /\ dut.stop =>
       \/ stopping
       \/ dut.tx_stop_cnt > MAX_STOP
       \/ rx \in {"loop", "start", "join", "done"}
       \/ rx = "recv" /\ dut.rx_state = 0

StationInv == DutTypeOK /\ RowsInv /\ CountInv /\ StopInv

-----------------------------------------------------------------------------
(* The tables.                                                             *)

(* A row of the sender's table starts with uapsd_tx_start, and only its    *)
(* last function is uapsd_tx_stop.                                         *)
GoodTxRow(r) ==
  /\ r \in Seq(TxFunctions)
  /\ Len(r) \in 1..11
  /\ r[1].f = "start"
  /\ \A i \in 1..Len(r) : r[i].f # "stop" => i < Len(r)

LEMMA TxRowGood ==
  ASSUME NEW data \in Seq(TxFunctions), Len(data) \in 1..8
  PROVE  GoodTxRow(TxRow(data))
<1> DEFINE head == <<[f |-> "start", ac |-> "BE"], [f |-> "confirm", ac |-> "BE"]>>
           tail == <<[f |-> "stop", ac |-> "BE"]>>
           r == TxRow(data)
<1>1. head \in Seq(TxFunctions) /\ tail \in Seq(TxFunctions)
  BY DEF TxFunctions, Categories
<1>2. r = head \o data \o tail
  BY DEF TxRow
<1>3. Len(head) = 2 /\ Len(tail) = 1
  OBVIOUS
<1>b. PICK n \in 1..8 : Len(data) = n
  OBVIOUS
<1>c. data \in Seq(TxFunctions)
  OBVIOUS
<1>a. \A s1, s2 \in Seq(TxFunctions) :
        /\ s1 \o s2 \in Seq(TxFunctions)
        /\ Len(s1 \o s2) = Len(s1) + Len(s2)
        /\ \A i \in 1..(Len(s1) + Len(s2)) :
             (s1 \o s2)[i] = IF i <= Len(s1) THEN s1[i] ELSE s2[i - Len(s1)]
  BY ConcatProperties
<1> HIDE DEF head, tail, r
<1>d. head \o data \in Seq(TxFunctions) /\ Len(head \o data) = Len(head) + Len(data)
  BY ONLY <1>1, <1>c, <1>a, Zenon
<1>e. Len(head \o data) = 2 + n
  BY ONLY <1>3, <1>b, <1>d
<1>4. head \o data \in Seq(TxFunctions) /\ Len(head \o data) = 2 + n
  BY <1>d, <1>e
<1>f. r \in Seq(TxFunctions) /\ Len(r) = Len(head \o data) + Len(tail)
  BY ONLY <1>1, <1>2, <1>4, <1>a, Zenon
<1>g. Len(r) = 3 + n
  BY ONLY <1>3, <1>4, <1>b, <1>f
<1>5. r \in Seq(TxFunctions) /\ Len(r) = 3 + n
  BY <1>f, <1>g
<1>6. r[1] = head[1]
  <2>1. (head \o data)[1] = head[1]
    BY <1>1, <1>3, <1>a
  <2> QED
    BY <2>1, <1>1, <1>2, <1>3, <1>4, <1>a, <1>b
<1>7. r[1].f = "start"
  BY <1>6 DEF head
<1>8. r[Len(r)] = tail[1]
  BY <1>1, <1>2, <1>3, <1>4, <1>5, <1>a
<1>9. r[Len(r)].f = "stop"
  BY <1>8 DEF tail
<1> QED
  <2>1. \A i \in 1..Len(r) : r[i].f # "stop" => i < Len(r)
    BY <1>5, <1>9
  <2>2. Len(r) \in 1..11
    BY <1>5
  <2> QED
    BY <1>5, <1>7, <2>1, <2>2 DEF GoodTxRow, r

LEMMA TxTableGood ==
  ASSUME NEW tc \in Tests
  PROVE  GoodTxRow(sta_uapsd_tx_tbl[tc])
<1>1. BE \in TxFunctions /\ BK \in TxFunctions /\ VI \in TxFunctions /\ VO \in TxFunctions
  BY DEF BE, BK, VI, VO, tx_data, TxFunctions, Categories
<1>2. tx_cyclic("VO") \in TxFunctions /\ tx_data_twice("VO") \in TxFunctions
  BY DEF tx_cyclic, tx_data_twice, TxFunctions, Categories
<1>3. CASE tc = "B_D"
  <2>1. <<VO, VO>> \in Seq(TxFunctions) /\ Len(<<VO, VO>>) \in 1..8
    BY <1>1, <1>2
  <2> QED
    BY <2>1, <1>3, TxRowGood DEF sta_uapsd_tx_tbl
<1>4. CASE tc = "B_H"
  <2>1. <<VO, VO>> \in Seq(TxFunctions) /\ Len(<<VO, VO>>) \in 1..8
    BY <1>1, <1>2
  <2> QED
    BY <2>1, <1>4, TxRowGood DEF sta_uapsd_tx_tbl
<1>5. CASE tc = "B_B"
  <2>1. <<VO, VI, BE, BK>> \in Seq(TxFunctions) /\ Len(<<VO, VI, BE, BK>>) \in 1..8
    BY <1>1, <1>2
  <2> QED
    BY <2>1, <1>5, TxRowGood DEF sta_uapsd_tx_tbl
<1>6. CASE tc = "B_M"
  <2>1. <<VI>> \in Seq(TxFunctions) /\ Len(<<VI>>) \in 1..8
    BY <1>1, <1>2
  <2> QED
    BY <2>1, <1>6, TxRowGood DEF sta_uapsd_tx_tbl
<1>7. CASE tc = "M_D"
  <2>1. <<VI, VI, VI, VI>> \in Seq(TxFunctions) /\ Len(<<VI, VI, VI, VI>>) \in 1..8
    BY <1>1, <1>2
  <2> QED
    BY <2>1, <1>7, TxRowGood DEF sta_uapsd_tx_tbl
<1>8. CASE tc = "B_Z"
  <2>1. <<VO>> \in Seq(TxFunctions) /\ Len(<<VO>>) \in 1..8
    BY <1>1, <1>2
  <2> QED
    BY <2>1, <1>8, TxRowGood DEF sta_uapsd_tx_tbl
<1>9. CASE tc = "M_Y"
  <2>1. <<VI, VO, BE, BE>> \in Seq(TxFunctions) /\ Len(<<VI, VO, BE, BE>>) \in 1..8
    BY <1>1, <1>2
  <2> QED
    BY <2>1, <1>9, TxRowGood DEF sta_uapsd_tx_tbl
<1>10. CASE tc = "L_1"
  <2>1. <<tx_cyclic("VO")>> \in Seq(TxFunctions) /\ Len(<<tx_cyclic("VO")>>) \in 1..8
    BY <1>1, <1>2
  <2> QED
    BY <2>1, <1>10, TxRowGood DEF sta_uapsd_tx_tbl
<1>11. CASE tc = "A_Y"
  <2>1. <<VI, VO, BE, BE, BE>> \in Seq(TxFunctions) /\ Len(<<VI, VO, BE, BE, BE>>) \in 1..8
    BY <1>1, <1>2
  <2> QED
    BY <2>1, <1>11, TxRowGood DEF sta_uapsd_tx_tbl
<1>12. CASE tc = "B_W"
  <2>1. <<VI, VI, VI>> \in Seq(TxFunctions) /\ Len(<<VI, VI, VI>>) \in 1..8
    BY <1>1, <1>2
  <2> QED
    BY <2>1, <1>12, TxRowGood DEF sta_uapsd_tx_tbl
<1>13. CASE tc = "A_J"
  <2>1. <<VO, VO>> \in Seq(TxFunctions) /\ Len(<<VO, VO>>) \in 1..8
    BY <1>1, <1>2
  <2> QED
    BY <2>1, <1>13, TxRowGood DEF sta_uapsd_tx_tbl
<1>14. CASE tc = "M_V"
  <2>1. <<VI, BE, VI>> \in Seq(TxFunctions) /\ Len(<<VI, BE, VI>>) \in 1..8
    BY <1>1, <1>2
  <2> QED
    BY <2>1, <1>14, TxRowGood DEF sta_uapsd_tx_tbl
<1>15. CASE tc = "M_U"
  <2>1. <<VI, BE, tx_data_twice("VO")>> \in Seq(TxFunctions) /\ Len(<<VI, BE, tx_data_twice("VO")>>) \in 1..8
    BY <1>1, <1>2
  <2> QED
    BY <2>1, <1>15, TxRowGood DEF sta_uapsd_tx_tbl
<1>16. CASE tc = "A_U"
  <2>1. <<VI, BE, BE, BE, VO, VO>> \in Seq(TxFunctions) /\ Len(<<VI, BE, BE, BE, VO, VO>>) \in 1..8
    BY <1>1, <1>2
  <2> QED
    BY <2>1, <1>16, TxRowGood DEF sta_uapsd_tx_tbl
<1>17. CASE tc = "M_L"
  <2>1. <<BE>> \in Seq(TxFunctions) /\ Len(<<BE>>) \in 1..8
    BY <1>1, <1>2
  <2> QED
    BY <2>1, <1>17, TxRowGood DEF sta_uapsd_tx_tbl
<1>18. CASE tc = "B_K"
  <2>1. <<VI, BE, VI>> \in Seq(TxFunctions) /\ Len(<<VI, BE, VI>>) \in 1..8
    BY <1>1, <1>2
  <2> QED
    BY <2>1, <1>18, TxRowGood DEF sta_uapsd_tx_tbl
<1>19. CASE tc = "M_B"
  <2>1. <<VO, VI, BE, BK>> \in Seq(TxFunctions) /\ Len(<<VO, VI, BE, BK>>) \in 1..8
    BY <1>1, <1>2
  <2> QED
    BY <2>1, <1>19, TxRowGood DEF sta_uapsd_tx_tbl
<1>20. CASE tc = "M_K"
  <2>1. <<VI, BE, VI>> \in Seq(TxFunctions) /\ Len(<<VI, BE, VI>>) \in 1..8
    BY <1>1, <1>2
  <2> QED
    BY <2>1, <1>20, TxRowGood DEF sta_uapsd_tx_tbl
<1>21. CASE tc = "M_W"
  <2>1. <<VI, BE, VI>> \in Seq(TxFunctions) /\ Len(<<VI, BE, VI>>) \in 1..8
    BY <1>1, <1>2
  <2> QED
    BY <2>1, <1>21, TxRowGood DEF sta_uapsd_tx_tbl
<1> QED
  BY <1>3, <1>4, <1>5, <1>6, <1>7, <1>8, <1>9, <1>10, <1>11, <1>12, <1>13,
     <1>14, <1>15, <1>16, <1>17, <1>18, <1>19, <1>20, <1>21 DEF Tests

(* A row of the receiver's table starts with uapsd_rx_start, once, and     *)
(* only its last function waits for a STOP.                                *)
RxFunctions == {"start", "data", "stop", "cyclic_vo"}
GoodRxRow(r) ==
  /\ r \in Seq(RxFunctions)
  /\ Len(r) \in 2..6
  /\ \A i \in 1..Len(r) :
       /\ r[i] = "start" <=> i = 1
       /\ r[i] \in {"start", "data"} <=> i < Len(r)

LEMMA RxRowGood ==
  ASSUME NEW n \in 0..4
  PROVE  GoodRxRow(RxRow(n))
<1> DEFINE head == <<"start">>
           data == [i \in 1..n |-> "data"]
           tail == <<"stop">>
           r == RxRow(n)
<1>1. head \in Seq(RxFunctions) /\ data \in Seq(RxFunctions) /\ tail \in Seq(RxFunctions)
  BY DEF RxFunctions
<1>2. r = head \o data \o tail
  BY DEF RxRow
<1>3. /\ Len(head) = 1 /\ Len(tail) = 1 /\ Len(data) = n
      /\ head[1] = "start" /\ tail[1] = "stop" /\ \A i \in 1..n : data[i] = "data"
  OBVIOUS
<1>a. \A s1, s2 \in Seq(RxFunctions) :
        /\ s1 \o s2 \in Seq(RxFunctions)
        /\ Len(s1 \o s2) = Len(s1) + Len(s2)
        /\ \A i \in 1..(Len(s1) + Len(s2)) :
             (s1 \o s2)[i] = IF i <= Len(s1) THEN s1[i] ELSE s2[i - Len(s1)]
  BY ConcatProperties
<1> HIDE DEF head, data, tail, r
<1>4. PICK s : s = head \o data
  OBVIOUS
<1>5. /\ s \in Seq(RxFunctions) /\ Len(s) = Len(head) + Len(data)
      /\ \A i \in 1..(Len(head) + Len(data)) :
           s[i] = IF i <= Len(head) THEN head[i] ELSE data[i - Len(head)]
  BY ONLY <1>1, <1>4, <1>a, Zenon
<1>6. Len(s) = 1 + n /\ s[1] = "start" /\ \A i \in 2..(1 + n) : s[i] = "data"
  BY ONLY n \in 0..4, <1>3, <1>5
<1>7. /\ r \in Seq(RxFunctions) /\ Len(r) = Len(s) + Len(tail)
      /\ \A i \in 1..(Len(s) + Len(tail)) :
           r[i] = IF i <= Len(s) THEN s[i] ELSE tail[i - Len(s)]
  BY ONLY <1>1, <1>2, <1>4, <1>5, <1>a, Zenon
<1>8. /\ Len(r) = 2 + n /\ r[1] = "start" /\ r[2 + n] = "stop"
      /\ \A i \in 2..(1 + n) : r[i] = "data"
  BY ONLY n \in 0..4, <1>3, <1>6, <1>7
<1>9. \A i \in 1..Len(r) :
        /\ r[i] = "start" <=> i = 1
        /\ r[i] \in {"start", "data"} <=> i < Len(r)
  BY ONLY n \in 0..4, <1>8
<1> QED
  BY <1>7, <1>8, <1>9 DEF GoodRxRow, r

LEMMA RxTableGood ==
  ASSUME NEW tc \in Tests
  PROVE  GoodRxRow(sta_uapsd_recv_tbl[tc])
<1>1. CASE tc = "L_1"
  <2>1. GoodRxRow(<<"start", "cyclic_vo">>)
    BY DEF GoodRxRow, RxFunctions
  <2> QED
    BY <1>1, <2>1 DEF sta_uapsd_recv_tbl
<1>2. CASE tc # "L_1"
  <2>1. PICK n \in 0..4 : sta_uapsd_recv_tbl[tc] = RxRow(n)
    BY <1>2 DEF Tests, sta_uapsd_recv_tbl
  <2> QED
    BY <2>1, RxRowGood
<1> QED
  BY <1>1, <1>2

(* What the console's functions send is data and STOPs.  Every row starts  *)
(* with the functions for a HELLO and a CONFIRM.                           *)
Reply == {p \in Packet : p.msg \in {"DEFAULT", "STOP"}}
ConsoleFunction ==
  {fn \in [f : {"answer", "hello", "stop", "cyclic"},
           expected : Packet, tx : Seq(Reply)] :
     fn.f = "cyclic" => fn.expected = Data("VO")}

GoodConsoleRow(r) ==
  /\ r \in Seq(ConsoleFunction) /\ Len(r) \in 2..9
  /\ r[1] = rx_hello
  /\ r[2].f = "answer" /\ r[2].expected = Msg("CONFIRM")

LEMMA PacketsGood ==
  ASSUME NEW m \in Messages, NEW ac \in Categories
  PROVE  Msg(m) \in Packet /\ Data(ac) \in Packet
BY DEF Msg, Data, Packet, Messages, Categories

LEMMA RepliesGood ==
  /\ Msg("STOP") \in Reply
  /\ \A ac \in Categories : Data(ac) \in Reply
<1>1. Msg("STOP").msg = "STOP" /\ \A ac \in Categories : Data(ac).msg = "DEFAULT"
  BY DEF Msg, Data
<1>2. Msg("STOP") \in Packet /\ \A ac \in Categories : Data(ac) \in Packet
  BY PacketsGood DEF Messages, Categories
<1> QED BY <1>1, <1>2 DEF Reply

LEMMA EchoGood ==
  ASSUME NEW ac \in Categories, NEW acs \in Seq(Categories)
  PROVE  Echo(ac, acs) \in ConsoleFunction /\ EchoStop(ac, acs) \in ConsoleFunction
<1>1. Data(ac) \in Packet
  BY PacketsGood DEF Messages
<1>2. PICK n \in Nat : n = Len(acs)
  OBVIOUS
<1>3. DOMAIN acs = 1..n /\ \A i \in 1..n : acs[i] \in Categories
  BY <1>2
<1>4. PICK s : s = [i \in DOMAIN acs |-> Data(acs[i])]
  OBVIOUS
<1>5. \A i \in 1..n : Data(acs[i]) \in Reply
  BY <1>3, RepliesGood
<1>6. s \in Seq(Reply)
  <2>1. s \in [1..n -> Reply]
    BY <1>3, <1>4, <1>5
  <2> QED
    BY <2>1, <1>2
<1>7. <<Msg("STOP")>> \in Seq(Reply)
  BY RepliesGood
<1>8. s \o <<Msg("STOP")>> \in Seq(Reply)
  BY ONLY <1>6, <1>7, ConcatProperties, Zenon
<1> QED
  BY <1>1, <1>4, <1>6, <1>8 DEF Echo, EchoStop, Answer, ConsoleFunction

LEMMA ConsoleFunctionsGood ==
  /\ rx_hello \in ConsoleFunction
  /\ rx_confirm \in ConsoleFunction
  /\ rx_confirm_tx_vi \in ConsoleFunction
  /\ rx_tx_stop \in ConsoleFunction
  /\ rx_vo_tx_vo \in ConsoleFunction
  /\ rx_vo_tx_vo_tx_stop \in ConsoleFunction
  /\ rx_vo_tx_all_tx_stop \in ConsoleFunction
  /\ rx_be_tx_be \in ConsoleFunction
  /\ rx_be_tx_be_tx_stop \in ConsoleFunction
  /\ rx_vi_tx_be \in ConsoleFunction
  /\ rx_vi_tx_bk \in ConsoleFunction
  /\ rx_vo_tx_bcst_tx_stop \in ConsoleFunction
  /\ rx_vi_tx_bcst \in ConsoleFunction
  /\ rx_be_tx_bcst \in ConsoleFunction
  /\ rx_be_tx_bcst_tx_stop \in ConsoleFunction
  /\ rx_vi_tx_vi \in ConsoleFunction
  /\ rx_vi_tx_vi_tx_stop \in ConsoleFunction
  /\ rx_vi_tx_vo_tx_stop \in ConsoleFunction
  /\ rx_vo_tx_stop \in ConsoleFunction
  /\ rx_vi_tx_stop \in ConsoleFunction
  /\ rx_bk_tx_stop \in ConsoleFunction
  /\ rx_vo_tx_2vo \in ConsoleFunction
  /\ rx_be \in ConsoleFunction
  /\ rx_vi \in ConsoleFunction
  /\ rx_vo \in ConsoleFunction
  /\ rx_vo_tx_vo_cyclic \in ConsoleFunction
<1>1. /\ <<>> \in Seq(Reply)
      /\ <<Data("VI")>> \in Seq(Reply) /\ <<Data("VO")>> \in Seq(Reply)
      /\ <<Msg("STOP")>> \in Seq(Reply)
      /\ Msg("HELLO") \in Packet /\ Msg("CONFIRM") \in Packet
      /\ Msg("STOP") \in Packet /\ Data("VO") \in Packet
  BY PacketsGood, RepliesGood DEF Messages, Categories
<1>2. /\ <<"VO">> \in Seq(Categories)
      /\ <<"VO", "VI", "BE", "BK">> \in Seq(Categories)
      /\ <<"BE">> \in Seq(Categories)
      /\ <<"BK">> \in Seq(Categories)
      /\ <<"VI", "BE">> \in Seq(Categories)
      /\ <<"BE", "BE">> \in Seq(Categories)
      /\ <<"VI">> \in Seq(Categories)
      /\ <<>> \in Seq(Categories)
      /\ <<"VO", "VO">> \in Seq(Categories)
  BY DEF Categories
<1>3. rx_hello \in ConsoleFunction
  BY <1>1 DEF rx_hello, Answer, ConsoleFunction
<1>4. rx_confirm \in ConsoleFunction
  BY <1>1 DEF rx_confirm, Answer, ConsoleFunction
<1>5. rx_confirm_tx_vi \in ConsoleFunction
  BY <1>1 DEF rx_confirm_tx_vi, Answer, ConsoleFunction
<1>6. rx_tx_stop \in ConsoleFunction
  BY <1>1 DEF rx_tx_stop, Answer, ConsoleFunction
<1>7. rx_vo_tx_vo \in ConsoleFunction
  BY <1>2, EchoGood DEF rx_vo_tx_vo, Categories
<1>8. rx_vo_tx_vo_tx_stop \in ConsoleFunction
  BY <1>2, EchoGood DEF rx_vo_tx_vo_tx_stop, Categories
<1>9. rx_vo_tx_all_tx_stop \in ConsoleFunction
  BY <1>2, EchoGood DEF rx_vo_tx_all_tx_stop, Categories
<1>10. rx_be_tx_be \in ConsoleFunction
  BY <1>2, EchoGood DEF rx_be_tx_be, Categories
<1>11. rx_be_tx_be_tx_stop \in ConsoleFunction
  BY <1>2, EchoGood DEF rx_be_tx_be_tx_stop, Categories
<1>12. rx_vi_tx_be \in ConsoleFunction
  BY <1>2, EchoGood DEF rx_vi_tx_be, Categories
<1>13. rx_vi_tx_bk \in ConsoleFunction
  BY <1>2, EchoGood DEF rx_vi_tx_bk, Categories
<1>14. rx_vo_tx_bcst_tx_stop \in ConsoleFunction
  BY <1>2, EchoGood DEF rx_vo_tx_bcst_tx_stop, Categories
<1>15. rx_vi_tx_bcst \in ConsoleFunction
  BY <1>2, EchoGood DEF rx_vi_tx_bcst, Categories
<1>16. rx_be_tx_bcst \in ConsoleFunction
  BY <1>2, EchoGood DEF rx_be_tx_bcst, Categories
<1>17. rx_be_tx_bcst_tx_stop \in ConsoleFunction
  BY <1>2, EchoGood DEF rx_be_tx_bcst_tx_stop, Categories
<1>18. rx_vi_tx_vi \in ConsoleFunction
  BY <1>2, EchoGood DEF rx_vi_tx_vi, Categories
<1>19. rx_vi_tx_vi_tx_stop \in ConsoleFunction
  BY <1>2, EchoGood DEF rx_vi_tx_vi_tx_stop, Categories
<1>20. rx_vi_tx_vo_tx_stop \in ConsoleFunction
  BY <1>2, EchoGood DEF rx_vi_tx_vo_tx_stop, Categories
<1>21. rx_vo_tx_stop \in ConsoleFunction
  BY <1>2, EchoGood DEF rx_vo_tx_stop, Categories
<1>22. rx_vi_tx_stop \in ConsoleFunction
  BY <1>2, EchoGood DEF rx_vi_tx_stop, Categories
<1>23. rx_bk_tx_stop \in ConsoleFunction
  BY <1>2, EchoGood DEF rx_bk_tx_stop, Categories
<1>24. rx_vo_tx_2vo \in ConsoleFunction
  BY <1>2, EchoGood DEF rx_vo_tx_2vo, Categories
<1>25. rx_be \in ConsoleFunction
  BY <1>2, EchoGood DEF rx_be, Categories
<1>26. rx_vi \in ConsoleFunction
  BY <1>2, EchoGood DEF rx_vi, Categories
<1>27. rx_vo \in ConsoleFunction
  BY <1>2, EchoGood DEF rx_vo, Categories
<1>28. rx_vo_tx_vo_cyclic \in ConsoleFunction
  BY <1>1 DEF rx_vo_tx_vo_cyclic, Answer, ConsoleFunction
<1> QED
  BY <1>3, <1>4, <1>5, <1>6, <1>7, <1>8, <1>9, <1>10, <1>11, <1>12, <1>13,
     <1>14, <1>15, <1>16, <1>17, <1>18, <1>19, <1>20, <1>21, <1>22, <1>23,
     <1>24, <1>25, <1>26, <1>27, <1>28

LEMMA ConsoleRowGood ==
  ASSUME NEW fs \in Seq(ConsoleFunction), Len(fs) \in 1..6
  PROVE  GoodConsoleRow(ConsoleRow(fs)) /\ ConsoleRow(fs)[3] = fs[1]
<1> DEFINE head == <<rx_hello, rx_confirm>>
           tail == <<rx_tx_stop>>
<1>1. /\ head \in Seq(ConsoleFunction) /\ Len(head) = 2
      /\ tail \in Seq(ConsoleFunction) /\ Len(tail) = 1
      /\ fs \in Seq(ConsoleFunction)
  BY ConsoleFunctionsGood
<1>2. PICK n \in 1..6 : Len(fs) = n
  OBVIOUS
<1>3. \A s1, s2 \in Seq(ConsoleFunction) :
        s1 \o s2 \in Seq(ConsoleFunction) /\ Len(s1 \o s2) = Len(s1) + Len(s2)
  BY ConcatProperties
<1> HIDE DEF head, tail
<1>4. PICK s : s = head \o fs
  OBVIOUS
<1>5. s \in Seq(ConsoleFunction) /\ Len(s) = Len(head) + Len(fs)
  BY ONLY <1>1, <1>3, <1>4, Zenon
<1>6. PICK r : r = s \o tail
  OBVIOUS
<1>7. r \in Seq(ConsoleFunction) /\ Len(r) = Len(s) + Len(tail)
  BY ONLY <1>1, <1>3, <1>5, <1>6, Zenon
<1>8. Len(r) \in 2..9
  BY ONLY <1>1, <1>2, <1>5, <1>7
<1>9. ConsoleRow(fs) = r
  BY <1>4, <1>6 DEF ConsoleRow, head, tail
<1>10. r[1] = head[1] /\ r[2] = head[2] /\ r[3] = fs[1]
  <2>1. \A s1, s2 \in Seq(ConsoleFunction) : \A i \in 1..(Len(s1) + Len(s2)) :
          (s1 \o s2)[i] = IF i <= Len(s1) THEN s1[i] ELSE s2[i - Len(s1)]
    BY ConcatProperties
  <2>2. \A i \in 1..(Len(head) + Len(fs)) :
          s[i] = IF i <= Len(head) THEN head[i] ELSE fs[i - Len(head)]
    BY <1>1, <1>4, <2>1
  <2>3. \A i \in 1..(Len(s) + Len(tail)) :
          r[i] = IF i <= Len(s) THEN s[i] ELSE tail[i - Len(s)]
    BY <1>1, <1>5, <1>6, <2>1
  <2>4. Len(head) = 2 /\ Len(s) = 2 + n /\ Len(tail) = 1 /\ Len(fs) = n
    BY <1>1, <1>2, <1>5
  <2>5. s[1] = head[1] /\ s[2] = head[2] /\ s[3] = fs[1]
    BY <1>2, <2>2, <2>4
  <2>6. r[1] = s[1] /\ r[2] = s[2] /\ r[3] = s[3]
    BY <1>2, <2>3, <2>4
  <2> QED BY <2>5, <2>6
<1>11. head[1] = rx_hello /\ head[2] = rx_confirm
  BY DEF head
<1>12. rx_confirm.f = "answer" /\ rx_confirm.expected = Msg("CONFIRM")
  BY DEF rx_confirm, Answer
<1> QED
  BY <1>7, <1>8, <1>9, <1>10, <1>11, <1>12 DEF GoodConsoleRow

LEMMA ConsoleTableGood ==
  ASSUME NEW tc \in Tests
  PROVE  GoodConsoleRow(uapsd_console_state_tbl[tc])
<1>1. CASE tc = "B_D"
  <2>1. <<rx_vo_tx_vo, rx_vo_tx_stop, rx_tx_stop>> \in Seq(ConsoleFunction)
        /\ Len(<<rx_vo_tx_vo, rx_vo_tx_stop, rx_tx_stop>>) \in 1..6
    BY ConsoleFunctionsGood
  <2>2. GoodConsoleRow(ConsoleRow(<<rx_vo_tx_vo, rx_vo_tx_stop, rx_tx_stop>>))
    BY <2>1, ConsoleRowGood
  <2> QED
    BY <2>2, <1>1 DEF uapsd_console_state_tbl
<1>2. CASE tc = "B_H"
  <2>1. <<rx_vo_tx_2vo, rx_vo_tx_stop, rx_tx_stop>> \in Seq(ConsoleFunction)
        /\ Len(<<rx_vo_tx_2vo, rx_vo_tx_stop, rx_tx_stop>>) \in 1..6
    BY ConsoleFunctionsGood
  <2>2. GoodConsoleRow(ConsoleRow(<<rx_vo_tx_2vo, rx_vo_tx_stop, rx_tx_stop>>))
    BY <2>1, ConsoleRowGood
  <2> QED
    BY <2>2, <1>2 DEF uapsd_console_state_tbl
<1>3. CASE tc = "B_B"
  <2>1. <<rx_vo, rx_vi, rx_be, rx_bk_tx_stop>> \in Seq(ConsoleFunction)
        /\ Len(<<rx_vo, rx_vi, rx_be, rx_bk_tx_stop>>) \in 1..6
    BY ConsoleFunctionsGood
  <2>2. GoodConsoleRow(ConsoleRow(<<rx_vo, rx_vi, rx_be, rx_bk_tx_stop>>))
    BY <2>1, ConsoleRowGood
  <2> QED
    BY <2>2, <1>3 DEF uapsd_console_state_tbl
<1>4. CASE tc = "B_M"
  <2>1. <<rx_vi_tx_stop>> \in Seq(ConsoleFunction)
        /\ Len(<<rx_vi_tx_stop>>) \in 1..6
    BY ConsoleFunctionsGood
  <2>2. GoodConsoleRow(ConsoleRow(<<rx_vi_tx_stop>>))
    BY <2>1, ConsoleRowGood
  <2> QED
    BY <2>2, <1>4 DEF uapsd_console_state_tbl
<1>5. CASE tc = "M_D"
  <2>1. <<rx_vi_tx_be, rx_vi_tx_bk, rx_vi_tx_vi, rx_vi_tx_vo_tx_stop>> \in Seq(ConsoleFunction)
        /\ Len(<<rx_vi_tx_be, rx_vi_tx_bk, rx_vi_tx_vi, rx_vi_tx_vo_tx_stop>>) \in 1..6
    BY ConsoleFunctionsGood
  <2>2. GoodConsoleRow(ConsoleRow(<<rx_vi_tx_be, rx_vi_tx_bk, rx_vi_tx_vi, rx_vi_tx_vo_tx_stop>>))
    BY <2>1, ConsoleRowGood
  <2> QED
    BY <2>2, <1>5 DEF uapsd_console_state_tbl
<1>6. CASE tc = "B_Z"
  <2>1. <<rx_hello, rx_confirm_tx_vi, rx_vo_tx_bcst_tx_stop, rx_tx_stop>> \in Seq(ConsoleFunction)
        /\ Len(<<rx_hello, rx_confirm_tx_vi, rx_vo_tx_bcst_tx_stop, rx_tx_stop>>) \in 2..9
    BY ConsoleFunctionsGood
  <2>2. rx_confirm_tx_vi.f = "answer" /\ rx_confirm_tx_vi.expected = Msg("CONFIRM")
    BY DEF rx_confirm_tx_vi, Answer
  <2>3. GoodConsoleRow(<<rx_hello, rx_confirm_tx_vi, rx_vo_tx_bcst_tx_stop, rx_tx_stop>>)
    BY <2>1, <2>2 DEF GoodConsoleRow
  <2> QED
    BY <2>3, <1>6 DEF uapsd_console_state_tbl
<1>7. CASE tc = "M_Y"
  <2>1. <<rx_vi_tx_vi, rx_vo, rx_be_tx_be, rx_be_tx_bcst_tx_stop>> \in Seq(ConsoleFunction)
        /\ Len(<<rx_vi_tx_vi, rx_vo, rx_be_tx_be, rx_be_tx_bcst_tx_stop>>) \in 1..6
    BY ConsoleFunctionsGood
  <2>2. GoodConsoleRow(ConsoleRow(<<rx_vi_tx_vi, rx_vo, rx_be_tx_be, rx_be_tx_bcst_tx_stop>>))
    BY <2>1, ConsoleRowGood
  <2> QED
    BY <2>2, <1>7 DEF uapsd_console_state_tbl
<1>8. CASE tc = "L_1"
  <2>1. <<rx_vo_tx_vo_cyclic>> \in Seq(ConsoleFunction)
        /\ Len(<<rx_vo_tx_vo_cyclic>>) \in 1..6
    BY ConsoleFunctionsGood
  <2>2. GoodConsoleRow(ConsoleRow(<<rx_vo_tx_vo_cyclic>>))
    BY <2>1, ConsoleRowGood
  <2> QED
    BY <2>2, <1>8 DEF uapsd_console_state_tbl
<1>9. CASE tc = "A_Y"
  <2>1. <<rx_vi_tx_vi, rx_vo, rx_be_tx_be, rx_be, rx_be_tx_bcst_tx_stop>> \in Seq(ConsoleFunction)
        /\ Len(<<rx_vi_tx_vi, rx_vo, rx_be_tx_be, rx_be, rx_be_tx_bcst_tx_stop>>) \in 1..6
    BY ConsoleFunctionsGood
  <2>2. GoodConsoleRow(ConsoleRow(<<rx_vi_tx_vi, rx_vo, rx_be_tx_be, rx_be, rx_be_tx_bcst_tx_stop>>))
    BY <2>1, ConsoleRowGood
  <2> QED
    BY <2>2, <1>9 DEF uapsd_console_state_tbl
<1>10. CASE tc = "B_W"
  <2>1. <<rx_vi_tx_bcst, rx_vi_tx_bcst, rx_vi_tx_stop>> \in Seq(ConsoleFunction)
        /\ Len(<<rx_vi_tx_bcst, rx_vi_tx_bcst, rx_vi_tx_stop>>) \in 1..6
    BY ConsoleFunctionsGood
  <2>2. GoodConsoleRow(ConsoleRow(<<rx_vi_tx_bcst, rx_vi_tx_bcst, rx_vi_tx_stop>>))
    BY <2>1, ConsoleRowGood
  <2> QED
    BY <2>2, <1>10 DEF uapsd_console_state_tbl
<1>11. CASE tc = "A_J"
  <2>1. <<rx_vo, rx_vo_tx_all_tx_stop>> \in Seq(ConsoleFunction)
        /\ Len(<<rx_vo, rx_vo_tx_all_tx_stop>>) \in 1..6
    BY ConsoleFunctionsGood
  <2>2. GoodConsoleRow(ConsoleRow(<<rx_vo, rx_vo_tx_all_tx_stop>>))
    BY <2>1, ConsoleRowGood
  <2> QED
    BY <2>2, <1>11 DEF uapsd_console_state_tbl
<1>12. CASE tc = "M_V"
  <2>1. <<rx_vi_tx_vi, rx_be_tx_be, rx_vi_tx_vi_tx_stop>> \in Seq(ConsoleFunction)
        /\ Len(<<rx_vi_tx_vi, rx_be_tx_be, rx_vi_tx_vi_tx_stop>>) \in 1..6
    BY ConsoleFunctionsGood
  <2>2. GoodConsoleRow(ConsoleRow(<<rx_vi_tx_vi, rx_be_tx_be, rx_vi_tx_vi_tx_stop>>))
    BY <2>1, ConsoleRowGood
  <2> QED
    BY <2>2, <1>12 DEF uapsd_console_state_tbl
<1>13. CASE tc = "M_U"
  <2>1. <<rx_vi_tx_vi, rx_be_tx_be, rx_vo_tx_vo, rx_vo_tx_vo_tx_stop>> \in Seq(ConsoleFunction)
        /\ Len(<<rx_vi_tx_vi, rx_be_tx_be, rx_vo_tx_vo, rx_vo_tx_vo_tx_stop>>) \in 1..6
    BY ConsoleFunctionsGood
  <2>2. GoodConsoleRow(ConsoleRow(<<rx_vi_tx_vi, rx_be_tx_be, rx_vo_tx_vo, rx_vo_tx_vo_tx_stop>>))
    BY <2>1, ConsoleRowGood
  <2> QED
    BY <2>2, <1>13 DEF uapsd_console_state_tbl
<1>14. CASE tc = "A_U"
  <2>1. <<rx_vi_tx_vi, rx_be, rx_be_tx_be, rx_be, rx_vo_tx_vo, rx_vo_tx_stop>> \in Seq(ConsoleFunction)
        /\ Len(<<rx_vi_tx_vi, rx_be, rx_be_tx_be, rx_be, rx_vo_tx_vo, rx_vo_tx_stop>>) \in 1..6
    BY ConsoleFunctionsGood
  <2>2. GoodConsoleRow(ConsoleRow(<<rx_vi_tx_vi, rx_be, rx_be_tx_be, rx_be, rx_vo_tx_vo, rx_vo_tx_stop>>))
    BY <2>1, ConsoleRowGood
  <2> QED
    BY <2>2, <1>14 DEF uapsd_console_state_tbl
<1>15. CASE tc = "M_L"
  <2>1. <<rx_be_tx_be_tx_stop>> \in Seq(ConsoleFunction)
        /\ Len(<<rx_be_tx_be_tx_stop>>) \in 1..6
    BY ConsoleFunctionsGood
  <2>2. GoodConsoleRow(ConsoleRow(<<rx_be_tx_be_tx_stop>>))
    BY <2>1, ConsoleRowGood
  <2> QED
    BY <2>2, <1>15 DEF uapsd_console_state_tbl
<1>16. CASE tc = "B_K"
  <2>1. <<rx_vi_tx_vi, rx_be_tx_be, rx_vi_tx_stop>> \in Seq(ConsoleFunction)
        /\ Len(<<rx_vi_tx_vi, rx_be_tx_be, rx_vi_tx_stop>>) \in 1..6
    BY ConsoleFunctionsGood
  <2>2. GoodConsoleRow(ConsoleRow(<<rx_vi_tx_vi, rx_be_tx_be, rx_vi_tx_stop>>))
    BY <2>1, ConsoleRowGood
  <2> QED
    BY <2>2, <1>16 DEF uapsd_console_state_tbl
<1>17. CASE tc = "M_B"
  <2>1. <<rx_vo, rx_vi, rx_be, rx_bk_tx_stop>> \in Seq(ConsoleFunction)
        /\ Len(<<rx_vo, rx_vi, rx_be, rx_bk_tx_stop>>) \in 1..6
    BY ConsoleFunctionsGood
  <2>2. GoodConsoleRow(ConsoleRow(<<rx_vo, rx_vi, rx_be, rx_bk_tx_stop>>))
    BY <2>1, ConsoleRowGood
  <2> QED
    BY <2>2, <1>17 DEF uapsd_console_state_tbl
<1>18. CASE tc = "M_K"
  <2>1. <<rx_vi_tx_vi, rx_be_tx_be, rx_vi_tx_stop>> \in Seq(ConsoleFunction)
        /\ Len(<<rx_vi_tx_vi, rx_be_tx_be, rx_vi_tx_stop>>) \in 1..6
    BY ConsoleFunctionsGood
  <2>2. GoodConsoleRow(ConsoleRow(<<rx_vi_tx_vi, rx_be_tx_be, rx_vi_tx_stop>>))
    BY <2>1, ConsoleRowGood
  <2> QED
    BY <2>2, <1>18 DEF uapsd_console_state_tbl
<1>19. CASE tc = "M_W"
  <2>1. <<rx_vi_tx_bcst, rx_be_tx_bcst, rx_vi_tx_stop>> \in Seq(ConsoleFunction)
        /\ Len(<<rx_vi_tx_bcst, rx_be_tx_bcst, rx_vi_tx_stop>>) \in 1..6
    BY ConsoleFunctionsGood
  <2>2. GoodConsoleRow(ConsoleRow(<<rx_vi_tx_bcst, rx_be_tx_bcst, rx_vi_tx_stop>>))
    BY <2>1, ConsoleRowGood
  <2> QED
    BY <2>2, <1>19 DEF uapsd_console_state_tbl
<1> QED
  BY <1>1, <1>2, <1>3, <1>4, <1>5, <1>6, <1>7, <1>8, <1>9, <1>10, <1>11, <1>12,
     <1>13, <1>14, <1>15, <1>16, <1>17, <1>18, <1>19 DEF Tests

-----------------------------------------------------------------------------
(* The link.                                                               *)

Queue == {q \in Seq(Packet) : Len(q) <= MaxQueue}

LEMMA SentGood ==
  ASSUME NEW q \in Seq(Packet), NEW ps \in Seq(Packet)
  PROVE  Sent(q, ps) \in Queue
<1>1. PICK all : all = q \o ps
  OBVIOUS
<1>2. all \in Seq(Packet)
  BY <1>1, ConcatProperties
<1>3. PICK n \in Nat : n = Len(all)
  BY <1>2
<1>4. PICK k : k = (IF n < MaxQueue THEN n ELSE MaxQueue)
  OBVIOUS
<1>5. k \in 0..n /\ k \in Nat /\ k <= MaxQueue
  BY <1>3, <1>4, LinkAssumption
<1>6. Sent(q, ps) = SubSeq(all, 1, k)
  BY <1>1, <1>3, <1>4 DEF Sent
<1>7. SubSeq(all, 1, k) \in Seq(Packet) /\ Len(SubSeq(all, 1, k)) = k
  <2>1. \A i \in 1..k : all[i] \in Packet
    BY <1>2, <1>3, <1>5
  <2> QED
    BY <1>2, <1>3, <1>5, <2>1
<1> QED
  BY <1>5, <1>6, <1>7 DEF Queue

LEMMA HeadTailGood ==
  ASSUME NEW q \in Queue, q # <<>>
  PROVE  Head(q) \in Packet /\ Tail(q) \in Queue
<1>1. PICK n \in Nat : n = Len(q) /\ n <= MaxQueue
  BY DEF Queue
<1>2. q \in Seq(Packet)
  BY DEF Queue
<1>3. Head(q) \in Packet /\ Tail(q) \in Seq(Packet) /\ Len(Tail(q)) = n - 1
  BY <1>1, <1>2
<1> QED
  BY <1>1, <1>3, LinkAssumption DEF Queue

LEMMA LostGood ==
  ASSUME NEW q \in Queue, NEW new, Lost(q, new)
  PROVE  new \in Queue
<1>1. q \in Seq(Packet)
  BY DEF Queue
<1>2. PICK n \in Nat : n = Len(q) /\ n <= MaxQueue
  BY DEF Queue
<1>3. PICK i \in DOMAIN q : new = RemoveAt(q, i)
  BY DEF Lost
<1>4. i \in 1..n
  BY <1>1, <1>2, <1>3
<1>5. PICK s1, s2 : s1 = SubSeq(q, 1, i - 1) /\ s2 = SubSeq(q, i + 1, n)
  OBVIOUS
<1>6. s1 \in Seq(Packet) /\ Len(s1) = i - 1
  <2>1. \A j \in 1..(i - 1) : q[j] \in Packet
    BY <1>1, <1>2, <1>4
  <2> QED
    BY <1>1, <1>2, <1>4, <1>5, <2>1
<1>7. s2 \in Seq(Packet) /\ Len(s2) = n - i
  <2>1. \A j \in (i + 1)..n : q[j] \in Packet
    BY <1>1, <1>2, <1>4
  <2> QED
    BY <1>1, <1>2, <1>4, <1>5, <2>1
<1>8. new = s1 \o s2
  BY <1>2, <1>3, <1>5 DEF RemoveAt
<1>9. new \in Seq(Packet) /\ Len(new) = Len(s1) + Len(s2)
  BY ONLY <1>6, <1>7, <1>8, ConcatProperties, Zenon
<1>10. Len(new) <= MaxQueue
  BY <1>2, <1>4, <1>6, <1>7, <1>9, LinkAssumption
<1> QED
  BY <1>9, <1>10 DEF Queue

LEMMA OvertakenGood ==
  ASSUME NEW q \in Queue, NEW new, Overtaken(q, new)
  PROVE  new \in Queue
<1>1. q \in Seq(Packet)
  BY DEF Queue
<1>2. PICK n \in Nat : n = Len(q) /\ n <= MaxQueue
  BY DEF Queue
<1>3. PICK i \in 1..(n - 1) :
        new = [q EXCEPT ![i] = q[i + 1], ![i + 1] = q[i]]
  BY <1>2 DEF Overtaken
<1>4. q[i] \in Packet /\ q[i + 1] \in Packet
  BY <1>1, <1>2, <1>3
<1>5. q \in [1..n -> Packet]
  BY <1>1, <1>2
<1>6. new \in [1..n -> Packet]
  BY <1>3, <1>4, <1>5
<1>7. new \in Seq(Packet) /\ Len(new) = n
  BY <1>6
<1> QED
  BY <1>2, <1>7 DEF Queue

-----------------------------------------------------------------------------
(* The console.  A packet resets it at most twice, so that its counter     *)
(* ends at most two beyond the limit.                                      *)
ConFields(n) ==
  [tc : Tests, state : 0..9, can_quit : BOOLEAN, reset : BOOLEAN,
   reset_rx : BOOLEAN, num_retry : 0..n, stop : BOOLEAN, expired : BOOLEAN]

ConGood(c, n) ==
  /\ c \in ConFields(n)
  /\ c.state <= Len(uapsd_console_state_tbl[c.tc])
  /\ c.num_retry > ConsoleRetries => c.stop

(* What a function of the console returns.                                 *)
GoodResult(h, n) == ConGood(h.con, n) /\ h.tx \in Seq(Packet)

LEMMA NoPackets == <<>> \in Seq(Packet)
OBVIOUS

LEMMA ControlPackets ==
  ASSUME NEW m \in Messages
  PROVE  Msg(m) \in Packet /\ <<Msg(m)>> \in Seq(Packet)
BY PacketsGood DEF Categories

LEMMA ResetGood ==
  ASSUME NEW n \in Nat, NEW c, ConGood(c, n)
  PROVE  GoodResult(Reset(c), n + 1)
<1>1. PICK d : d = Reset(c).con
  OBVIOUS
<1>2. d = [c EXCEPT !.num_retry = c.num_retry + 1, !.reset = TRUE, !.reset_rx = FALSE,
                    !.stop = c.stop \/ c.num_retry + 1 > ConsoleRetries]
  BY <1>1 DEF Reset, Done
<1>3. ConGood(d, n + 1)
  <2>1. c \in ConFields(n) /\ c.state <= Len(uapsd_console_state_tbl[c.tc])
    BY DEF ConGood
  <2>2. PICK m \in 0..(n + 1) : m = c.num_retry + 1
    BY <2>1 DEF ConFields
  <2>3. PICK v \in BOOLEAN : v = (c.stop \/ m > ConsoleRetries)
    OBVIOUS
  <2>4. d = [c EXCEPT !.num_retry = m, !.reset = TRUE, !.reset_rx = FALSE, !.stop = v]
    BY <1>2, <2>2, <2>3
  <2>5. d \in ConFields(n + 1)
    BY ONLY <2>1, <2>4, m \in 0..(n + 1), v \in BOOLEAN, n \in Nat DEF ConFields
  <2>6. d.tc = c.tc /\ d.state = c.state /\ d.num_retry = m /\ d.stop = v
    BY ONLY <2>1, <2>4 DEF ConFields
  <2> QED
    BY <2>1, <2>3, <2>5, <2>6 DEF ConGood
<1>4. PICK s1, s2 :
        /\ s1 = IF c.num_retry + 1 > ConsoleRetries THEN <<Msg("RESET_STOP")>> ELSE <<>>
        /\ s2 = <<Msg(IF c.reset_rx THEN "RESET_RESP" ELSE "RESET")>>
        /\ Reset(c).tx = s1 \o s2
  BY DEF Reset, Done
<1>5. s1 \in Seq(Packet) /\ s2 \in Seq(Packet)
  BY <1>4, ControlPackets, NoPackets DEF Messages
<1>6. s1 \o s2 \in Seq(Packet)
  BY ONLY <1>5, ConcatProperties, Zenon
<1> QED
  BY <1>1, <1>3, <1>4, <1>6 DEF GoodResult

LEMMA QuitGood ==
  ASSUME NEW n \in Nat, NEW c, ConGood(c, n)
  PROVE  ConGood(Quit(c), n)
BY ConsoleAssumption DEF Quit, ConGood, ConFields

LEMMA AdvanceGood ==
  ASSUME NEW n \in Nat, NEW c, ConGood(c, n),
         c.state < Len(uapsd_console_state_tbl[c.tc])
  PROVE  ConGood(Advance(c), n)
<1>1. PICK d : d = Advance(c)
  OBVIOUS
<1>2. c.tc \in Tests
  BY DEF ConGood, ConFields
<1>3. PICK k \in 1..9 : k = Len(uapsd_console_state_tbl[c.tc])
  BY <1>2, ConsoleTableGood DEF GoodConsoleRow
<1>4. d = [c EXCEPT !.state = c.state + 1]
  BY <1>1 DEF Advance
<1>5. c \in ConFields(n) /\ (c.num_retry > ConsoleRetries => c.stop)
  BY DEF ConGood
<1>a. c.state \in 0..9
  BY <1>5 DEF ConFields
<1>d. c.state < k
  BY <1>3, Zenon
<1>b. c.state + 1 \in 0..9 /\ c.state + 1 <= k
  BY ONLY <1>d, <1>a, k \in 1..9
<1>6. PICK m \in 0..9 : m = c.state + 1 /\ m <= k
  BY <1>b
<1>7. d = [c EXCEPT !.state = m]
  BY <1>4, <1>6
<1>8. d \in ConFields(n)
  BY ONLY <1>5, <1>7, m \in 0..9 DEF ConFields
<1>9. d.tc = c.tc /\ d.state = m /\ d.num_retry = c.num_retry /\ d.stop = c.stop
  BY ONLY <1>5, <1>7 DEF ConFields
<1>10. ConGood(d, n)
  BY <1>3, <1>5, <1>6, <1>8, <1>9 DEF ConGood
<1> QED
  BY <1>1, <1>10

LEMMA CallGood ==
  ASSUME NEW n \in Nat, NEW c, ConGood(c, n), NEW p \in Packet
  PROVE  GoodResult(Call(c, p), n + 1)
<1> DEFINE row == uapsd_console_state_tbl[c.tc]
<1>w. \A d : ConGood(d, n) => ConGood(d, n + 1)
  BY DEF ConGood, ConFields
<1>t. c.tc \in Tests /\ c.state \in 0..9 /\ Msg(c.tc) \in Packet
  BY ControlPackets DEF ConGood, ConFields, Messages
<1>s. <<Msg(c.tc)>> \in Seq(Packet)
  BY <1>t
<1>1. CASE c.state >= Len(row)
  <2>1. Call(c, p) = Done(c, <<>>)
    BY <1>1 DEF Call
  <2> QED
    BY <2>1, <1>w, NoPackets DEF GoodResult, Done
<1>2. CASE ~(c.state >= Len(row))
  <2>1. PICK k \in 1..9 : k = Len(row)
    BY <1>t, ConsoleTableGood DEF GoodConsoleRow
  <2>2. c.state < Len(row) /\ c.state + 1 \in 1..k
    BY <1>2, <1>t, <2>1
  <2>3. PICK fn \in ConsoleFunction : fn = row[c.state + 1]
    BY <1>t, <2>1, <2>2, ConsoleTableGood DEF GoodConsoleRow
  <2>4. fn.f \in {"answer", "hello", "stop", "cyclic"} /\ fn.tx \in Seq(Packet)
    <3>1. fn.tx \in Seq(Reply) /\ Reply \subseteq Packet
      BY <2>3 DEF ConsoleFunction, Reply
    <3> QED BY <2>3, <3>1 DEF ConsoleFunction
  <2>5. ConGood(Advance(c), n)
    BY <2>2, AdvanceGood
  <2>6. CASE fn.f \in {"hello", "answer"}
    <3>1. Call(c, p) = Answers(c, fn, p)
      BY <1>2, <2>3, <2>6 DEF Call
    <3>2. GoodResult(Answers(c, fn, p), n + 1)
      BY <1>s, <1>w, <2>4, <2>5, NoPackets DEF Answers, Done, GoodResult
    <3> QED
      BY <3>1, <3>2
  <2>7. CASE fn.f = "stop"
    <3>1. Call(c, p) = Stops(c, fn, p)
      BY <1>2, <2>3, <2>7 DEF Call
    <3>2. ConGood(Quit(Advance(c)), n)
      BY <2>5, QuitGood
    <3>3. GoodResult(Stops(c, fn, p), n + 1)
      BY <1>w, <2>4, <2>5, <3>2 DEF Stops, Done, GoodResult
    <3> QED
      BY <3>1, <3>3
  <2>8. CASE fn.f = "cyclic"
    <3>1. Call(c, p) = Cycle(c, fn, p)
      BY <1>2, <2>3, <2>8 DEF Call
    <3>2. ConGood(Quit(c), n) /\ GoodResult(Reset(c), n + 1)
      BY QuitGood, ResetGood
    <3>3. <<Msg("STOP")>> \in Seq(Packet)
      BY ControlPackets DEF Messages
    <3>4. GoodResult(Cycle(c, fn, p), n + 1)
      <4>1. CASE p = fn.expected
        BY <1>w, <2>4, <4>1 DEF Cycle, Done, GoodResult
      <4>2. CASE p # fn.expected /\ p = Msg("STOP")
        BY <1>w, <3>2, <3>3, <4>2 DEF Cycle, Done, GoodResult
      <4>3. CASE p # fn.expected /\ p # Msg("STOP")
        BY <3>2, <4>3 DEF Cycle
      <4> QED
        BY <4>1, <4>2, <4>3
    <3> QED
      BY <3>1, <3>4
  <2> QED
    BY <2>4, <2>6, <2>7, <2>8
<1> QED
  BY <1>1, <1>2

LEMMA GreetedGood ==
  ASSUME NEW n \in Nat, NEW c, ConGood(c, n)
  PROVE  ConGood(Greeted(c), n)
<1>1. c.tc \in Tests
  BY DEF ConGood, ConFields
<1>2. PICK k \in 1..9 : k = Len(uapsd_console_state_tbl[c.tc])
  BY <1>1, ConsoleTableGood DEF GoodConsoleRow
<1>3. PICK d : d = [c EXCEPT !.reset = FALSE, !.state = 0, !.can_quit = TRUE]
  OBVIOUS
<1>4. c \in ConFields(n)
  BY DEF ConGood
<1>a. PICK z \in 0..9 : z = 0
  OBVIOUS
<1>b. d = [c EXCEPT !.reset = FALSE, !.state = z, !.can_quit = TRUE]
  BY <1>3, <1>a
<1>5. d \in ConFields(n)
  BY ONLY <1>b, <1>4, n \in Nat, z \in 0..9 DEF ConFields
<1>6. d.tc = c.tc /\ d.state = 0 /\ d.num_retry = c.num_retry /\ d.stop = c.stop
  BY ONLY <1>3, <1>4 DEF ConFields
<1>7. ConGood(d, n)
  BY <1>2, <1>5, <1>6 DEF ConGood
<1> QED
  BY <1>3, <1>7 DEF Greeted

LEMMA HandledGood ==
  ASSUME NEW c, ConGood(c, ConsoleRetries), NEW p \in Packet
  PROVE  GoodResult(Handled(c, p), ConsoleRetries + 2)
<1> USE ConsoleAssumption
<1>w. \A h : GoodResult(h, ConsoleRetries + 1) => GoodResult(h, ConsoleRetries + 2)
  BY DEF GoodResult, ConGood, ConFields
<1>1. CASE p.msg = "HELLO"
  <2>1. ConGood(Greeted(c), ConsoleRetries)
    BY GreetedGood
  <2>2. Handled(c, p) = Call(Greeted(c), p)
    BY <1>1 DEF Handled
  <2>3. GoodResult(Call(Greeted(c), p), ConsoleRetries + 1)
    BY <2>1, CallGood
  <2> QED
    BY <1>w, <2>2, <2>3
<1>2. CASE p.msg # "HELLO" /\ c.reset
  <2>1. Handled(c, p) = Done(c, <<>>)
    BY <1>2 DEF Handled
  <2> QED
    BY <2>1, NoPackets DEF Done, GoodResult, ConGood, ConFields
<1>3. CASE p.msg = "RESET" /\ ~c.reset
  <2>1. PICK d : d = [c EXCEPT !.reset_rx = TRUE]
    OBVIOUS
  <2>2. ConGood(d, ConsoleRetries)
    BY <2>1 DEF ConGood, ConFields
  <2>3. PICK r : r = Reset(d)
    OBVIOUS
  <2>4. GoodResult(r, ConsoleRetries + 1)
    BY <2>2, <2>3, ResetGood
  <2>5. PICK h : h = Call(r.con, p)
    OBVIOUS
  <2>6. GoodResult(h, ConsoleRetries + 1 + 1)
    BY <2>4, <2>5, CallGood DEF GoodResult
  <2>7. Handled(c, p) = Done(h.con, r.tx \o h.tx)
    BY <1>3, <2>1, <2>3, <2>5 DEF Handled
  <2>8. r.tx \in Seq(Packet) /\ h.tx \in Seq(Packet)
    BY <2>4, <2>6 DEF GoodResult
  <2>9. r.tx \o h.tx \in Seq(Packet)
    BY ONLY <2>8, ConcatProperties, Zenon
  <2> QED
    BY <2>6, <2>7, <2>9 DEF GoodResult, Done
<1>4. CASE p.msg = "RESET_STOP" /\ ~c.reset
  <2>1. PICK d : d = [c EXCEPT !.stop = TRUE]
    OBVIOUS
  <2>2. ConGood(d, ConsoleRetries)
    BY <2>1 DEF ConGood, ConFields
  <2>3. Handled(c, p) = Call(d, p)
    BY <1>4, <2>1 DEF Handled
  <2>4. GoodResult(Call(d, p), ConsoleRetries + 1)
    BY <2>2, CallGood
  <2> QED
    BY <1>w, <2>3, <2>4
<1>5. CASE p.msg \notin {"HELLO", "RESET", "RESET_STOP"} /\ ~c.reset
  <2>1. Handled(c, p) = Call(c, p)
    BY <1>5 DEF Handled
  <2>2. GoodResult(Call(c, p), ConsoleRetries + 1)
    BY CallGood
  <2> QED
    BY <1>w, <2>1, <2>2
<1>6. c.reset \in BOOLEAN
  BY DEF ConGood, ConFields
<1> QED
  BY <1>1, <1>2, <1>3, <1>4, <1>5, <1>6

-----------------------------------------------------------------------------
(* The station.                                                            *)

Thread == [pc : TxPlaces, f : TxFunctions, sent : 0..Cycles, failed : BOOLEAN]

LEMMA DutFields ==
  ASSUME NEW d \in Dut
  PROVE  /\ d.tc \in Tests /\ d.tx_state \in 0..10 /\ d.rx_state \in 0..5
         /\ d.tx_hello_cnt \in 0..(MAX_HELLO + 1)
         /\ d.tx_stop_cnt \in 0..(MAX_STOP + 1)
         /\ d.num_retry \in 0..(MAX_RETRY + 1)
         /\ d.reset_rx \in BOOLEAN /\ d.stop \in BOOLEAN
BY DEF Dut

LEMMA RowsGood ==
  ASSUME dut \in Dut
  PROVE  GoodTxRow(StationRow) /\ GoodRxRow(StationReceives)
BY DutFields, TxTableGood, RxTableGood DEF StationRow, StationReceives

(* One field of the stream is set.                                         *)
LEMMA SetTxState ==
  ASSUME NEW d \in Dut, NEW v \in 0..10
  PROVE  LET e == [d EXCEPT !.tx_state = v]
         IN  /\ e \in Dut /\ e.tx_state = v /\ e.tc = d.tc
             /\ e.rx_state = d.rx_state /\ e.tx_stop_cnt = d.tx_stop_cnt
             /\ e.num_retry = d.num_retry /\ e.stop = d.stop
BY DEF Dut

LEMMA SetRxState ==
  ASSUME NEW d \in Dut, NEW v \in 0..5
  PROVE  LET e == [d EXCEPT !.rx_state = v]
         IN  /\ e \in Dut /\ e.rx_state = v /\ e.tc = d.tc
             /\ e.tx_state = d.tx_state /\ e.tx_stop_cnt = d.tx_stop_cnt
             /\ e.num_retry = d.num_retry /\ e.stop = d.stop
BY DEF Dut

LEMMA SetTest ==
  ASSUME NEW d \in Dut, NEW v \in Tests
  PROVE  LET e == [d EXCEPT !.tc = v]
         IN  /\ e \in Dut /\ e.tc = v /\ e.rx_state = d.rx_state
             /\ e.tx_state = d.tx_state /\ e.tx_stop_cnt = d.tx_stop_cnt
             /\ e.num_retry = d.num_retry /\ e.stop = d.stop
BY DEF Dut

LEMMA SetHellos ==
  ASSUME NEW d \in Dut, NEW v \in 0..(MAX_HELLO + 1)
  PROVE  LET e == [d EXCEPT !.tx_hello_cnt = v]
         IN  /\ e \in Dut /\ e.tc = d.tc /\ e.rx_state = d.rx_state
             /\ e.tx_state = d.tx_state /\ e.tx_stop_cnt = d.tx_stop_cnt
             /\ e.num_retry = d.num_retry /\ e.stop = d.stop
BY DEF Dut

LEMMA SetStops ==
  ASSUME NEW d \in Dut, NEW v \in 0..(MAX_STOP + 1)
  PROVE  LET e == [d EXCEPT !.tx_stop_cnt = v]
         IN  /\ e \in Dut /\ e.tc = d.tc /\ e.rx_state = d.rx_state
             /\ e.tx_state = d.tx_state /\ e.tx_stop_cnt = v
             /\ e.num_retry = d.num_retry /\ e.stop = d.stop
BY DEF Dut

LEMMA SetStop ==
  ASSUME NEW d \in Dut
  PROVE  LET e == [d EXCEPT !.stop = TRUE]
         IN  /\ e \in Dut /\ e.tc = d.tc /\ e.rx_state = d.rx_state
             /\ e.tx_state = d.tx_state /\ e.tx_stop_cnt = d.tx_stop_cnt
             /\ e.num_retry = d.num_retry /\ e.stop
BY DEF Dut

-----------------------------------------------------------------------------
(* The sender's steps.                                                     *)

LEMMA TxNextGood ==
  ASSUME tx \in Thread, TxNext
  PROVE  tx' \in Thread /\ tx'.pc = "loop"
BY DEF Thread, TxPlaces, TxNext

LEMMA TxLoopInv ==
  ASSUME StationInv, TxLoop, UNCHANGED stopping
  PROVE  StationInv'
<1> USE DEF StationInv
<1>1. dut \in Dut /\ tx \in Thread
  BY DEF DutTypeOK, Thread
<1>2. CASE dut.stop
  <2>1. tx' \in Thread /\ tx'.pc = "done"
    BY <1>1, <1>2 DEF TxLoop, Thread, TxPlaces
  <2>2. tx.pc = "loop" /\ UNCHANGED <<dut, rx>>
    BY DEF TxLoop
  <2>3. DutTypeOK'
    BY <2>1, <2>2 DEF DutTypeOK, Thread
  <2>4. RowsInv'
    BY <2>1, <2>2 DEF RowsInv, StationRow, StationReceives
  <2>5. CountInv' /\ StopInv'
    BY <1>2, <2>1, <2>2 DEF CountInv, StopInv
  <2> QED
    BY <2>3, <2>4, <2>5
<1>3. CASE ~dut.stop
  <2>1. PICK n \in 1..11 : n = Len(StationRow)
    BY <1>1, RowsGood DEF GoodTxRow
  <2>a. dut.tx_state < n
    BY <2>1, Zenon DEF RowsInv
  <2>2. dut.tx_state + 1 \in 1..n
    BY <1>1, <2>a, DutFields
  <2>3. PICK g \in TxFunctions : g = StationRow[dut.tx_state + 1]
    BY <1>1, <2>1, <2>2, RowsGood DEF GoodTxRow
  <2>b. sta_uapsd_tx_tbl[dut.tc][dut.tx_state + 1] = g
    BY <2>3 DEF StationRow
  <2>c. tx' = [tx EXCEPT !.pc = "act", !.sent = 0, !.failed = FALSE,
                 !.f = sta_uapsd_tx_tbl[dut.tc][dut.tx_state + 1]]
    BY <1>3, Zenon DEF TxLoop
  <2>d. PICK z \in 0..Cycles : z = 0
    BY DutAssumption
  <2>e. PICK t : t = [tx EXCEPT !.pc = "act", !.sent = z, !.failed = FALSE, !.f = g]
    OBVIOUS
  <2>f. t \in Thread /\ t.pc = "act" /\ t.f = g
    BY ONLY <1>1, <2>e, z \in 0..Cycles, g \in TxFunctions DEF Thread, TxPlaces
  <2>g. tx' = t
    BY <2>b, <2>c, <2>d, <2>e
  <2>5. tx' \in Thread /\ tx'.pc = "act" /\ tx'.f = g
    BY <2>f, <2>g
  <2>6. tx.pc = "loop" /\ UNCHANGED <<dut, rx>>
    BY DEF TxLoop
  <2>7. DutTypeOK'
    BY <2>5, <2>6 DEF DutTypeOK, Thread
  <2>8. dut.tx_state = 0 => g.f = "start"
    BY <1>1, <2>3, RowsGood DEF GoodTxRow
  <2>9. RowsInv'
    BY <2>3, <2>5, <2>6, <2>8 DEF RowsInv, StationRow, StationReceives
  <2>10. CountInv' /\ StopInv'
    BY <1>3, <2>5, <2>6 DEF CountInv, StopInv
  <2> QED
    BY <2>7, <2>9, <2>10
<1> QED
  BY <1>2, <1>3

LEMMA TxAdvances ==
  ASSUME StationInv, UNCHANGED <<stopping, rx>>, tx.pc = "act", TxNext,
         dut.rx_state > 0,
         NEW v \in 0..10, v < Len(StationRow),
         dut' = [dut EXCEPT !.tx_state = v]
  PROVE  StationInv'
<1> USE DEF StationInv
<1>1. dut \in Dut /\ tx \in Thread
  BY DEF DutTypeOK, Thread
<1>2. tx' \in Thread /\ tx'.pc = "loop"
  BY <1>1, TxNextGood
<1>3. /\ dut' \in Dut /\ dut'.tx_state = v /\ dut'.tc = dut.tc
      /\ dut'.rx_state = dut.rx_state /\ dut'.tx_stop_cnt = dut.tx_stop_cnt
      /\ dut'.num_retry = dut.num_retry /\ dut'.stop = dut.stop
  BY <1>1, SetTxState
<1>4. DutTypeOK'
  BY <1>2, <1>3 DEF DutTypeOK, Thread
<1>5. RowsInv'
  BY <1>2, <1>3 DEF RowsInv, StationRow, StationReceives
<1>6. CountInv' /\ StopInv'
  BY <1>2, <1>3 DEF CountInv, StopInv
<1> QED
  BY <1>4, <1>5, <1>6

(* A function other than uapsd_tx_stop has another after it in its row.    *)
LEMMA TxMoves ==
  ASSUME StationInv, UNCHANGED <<stopping, rx>>, tx.pc = "act",
         tx.f.f # "stop", TxNext, dut.rx_state > 0,
         dut' = [dut EXCEPT !.tx_state = @ + 1]
  PROVE  StationInv'
<1> USE DEF StationInv
<1>1. dut \in Dut
  BY DEF DutTypeOK
<1>2. PICK n \in 1..11 : n = Len(StationRow)
  BY <1>1, RowsGood DEF GoodTxRow
<1>3. dut.tx_state \in 0..10 /\ dut.tx_state < n
  BY <1>1, <1>2, DutFields DEF RowsInv
<1>4. StationRow[dut.tx_state + 1].f # "stop"
  BY <1>1, RowsGood DEF RowsInv, GoodTxRow
<1>5. PICK i \in 1..n : i = dut.tx_state + 1
  BY <1>3
<1>6. i < n
  BY <1>1, <1>2, <1>4, <1>5, RowsGood DEF GoodTxRow
<1>7. PICK v \in 0..10 : v = dut.tx_state + 1 /\ v < n
  BY <1>3, <1>5, <1>6
<1>8. dut' = [dut EXCEPT !.tx_state = v]
  BY <1>7
<1> QED
  BY <1>2, <1>7, <1>8, TxAdvances

(* The sender runs a function again.                                       *)
LEMMA TxIdles ==
  ASSUME StationInv, UNCHANGED <<dut, rx, stopping>>, tx.pc = "act", TxNext
  PROVE  StationInv'
<1> USE DEF StationInv
<1>1. dut \in Dut /\ tx \in Thread
  BY DEF DutTypeOK, Thread
<1>2. tx' \in Thread /\ tx'.pc = "loop"
  BY <1>1, TxNextGood
<1>3. DutTypeOK'
  BY <1>2 DEF DutTypeOK, Thread
<1>4. RowsInv'
  BY <1>2 DEF RowsInv, StationRow, StationReceives
<1>5. CountInv' /\ StopInv'
  BY <1>2 DEF CountInv, StopInv
<1> QED
  BY <1>3, <1>4, <1>5

LEMMA StartActionsInv ==
  ASSUME StationInv, TestReceived \/ TxHello \/ TooManyHellos, UNCHANGED stopping
  PROVE  StationInv'
<1> USE DEF StationInv
<1>1. dut \in Dut /\ tx \in Thread
  BY DEF DutTypeOK, Thread
<1>2. dut.tx_hello_cnt \in 0..(MAX_HELLO + 1) /\ dut.rx_state \in 0..5
  BY <1>1, DutFields
<1>3. CASE TestReceived
  BY <1>3, TxMoves DEF TestReceived, Runs
<1>4. CASE TxHello
  <2>1. tx.pc = "act" /\ TxNext /\ UNCHANGED rx /\ dut.tx_hello_cnt <= MAX_HELLO
    BY <1>4 DEF TxHello, Runs
  <2>2. PICK v \in 0..(MAX_HELLO + 1) : v = dut.tx_hello_cnt + 1
    BY <1>2, <2>1, DutAssumption
  <2>3. dut' = [dut EXCEPT !.tx_hello_cnt = v]
    BY <1>4, <2>2 DEF TxHello
  <2>4. /\ dut' \in Dut /\ dut'.tx_state = dut.tx_state /\ dut'.tc = dut.tc
        /\ dut'.rx_state = dut.rx_state /\ dut'.tx_stop_cnt = dut.tx_stop_cnt
        /\ dut'.num_retry = dut.num_retry /\ dut'.stop = dut.stop
    BY <1>1, <2>3, SetHellos
  <2>5. tx' \in Thread /\ tx'.pc = "loop"
    BY <1>1, <2>1, TxNextGood
  <2>6. DutTypeOK'
    BY <2>1, <2>4, <2>5 DEF DutTypeOK, Thread
  <2>7. RowsInv'
    BY <2>4, <2>5 DEF RowsInv, StationRow, StationReceives
  <2>8. CountInv' /\ StopInv'
    BY <2>1, <2>4, <2>5 DEF CountInv, StopInv
  <2> QED
    BY <2>6, <2>7, <2>8
<1>5. CASE TooManyHellos
  <2>1. tx.pc = "act" /\ TxNext /\ UNCHANGED rx /\ dut.rx_state = 0
    BY <1>5 DEF TooManyHellos, Runs
  <2>2. dut' = [dut EXCEPT !.stop = TRUE]
    BY <1>5 DEF TooManyHellos
  <2>3. /\ dut' \in Dut /\ dut'.tx_state = dut.tx_state /\ dut'.tc = dut.tc
        /\ dut'.rx_state = dut.rx_state /\ dut'.tx_stop_cnt = dut.tx_stop_cnt
        /\ dut'.num_retry = dut.num_retry /\ dut'.stop
    BY <1>1, <2>2, SetStop
  <2>4. tx' \in Thread /\ tx'.pc = "loop"
    BY <1>1, <2>1, TxNextGood
  <2>5. DutTypeOK'
    BY <2>1, <2>3, <2>4 DEF DutTypeOK, Thread
  <2>6. RowsInv'
    BY <2>3, <2>4 DEF RowsInv, StationRow, StationReceives
  <2>7. CountInv'
    BY <2>1, <2>3, <2>4 DEF CountInv
  <2>8. StopInv'
    <3>1. rx \in {"loop", "recv", "start", "join", "done"}
      BY <1>2, <2>1 DEF StopInv, DutTypeOK, RxPlaces
    <3> QED
      BY <2>1, <2>3, <2>4, <3>1 DEF StopInv
  <2> QED
    BY <2>5, <2>6, <2>7, <2>8
<1> QED
  BY <1>3, <1>4, <1>5

(* A function other than uapsd_tx_start runs after the test was received.  *)
LEMMA TestKnown ==
  ASSUME StationInv, tx.pc = "act", tx.f.f # "start"
  PROVE  dut.rx_state > 0
<1>1. dut \in Dut
  BY DEF StationInv, DutTypeOK
<1>2. dut.tx_state \in 0..10
  BY <1>1, DutFields
<1> QED
  BY <1>2 DEF StationInv, RowsInv

LEMMA TxSends ==
  ASSUME StationInv, UNCHANGED <<dut, rx, stopping>>, tx.pc = "act",
         NEW t \in Thread, t.pc = "act", t.f = tx.f, tx' = t
  PROVE  StationInv'
<1> USE DEF StationInv
<1>1. DutTypeOK'
  BY DEF DutTypeOK, Thread
<1>2. RowsInv'
  BY DEF RowsInv, StationRow, StationReceives
<1>3. CountInv' /\ StopInv'
  BY DEF CountInv, StopInv
<1> QED
  BY <1>1, <1>2, <1>3

LEMMA DataActionsInv ==
  ASSUME StationInv, UNCHANGED stopping,
         TxOnce \/ TxOnceFails \/ TxMany \/ TxManyFails \/ TxManyDone
  PROVE  StationInv'
<1>1. tx \in Thread /\ tx.sent \in 0..Cycles
  BY DEF StationInv, DutTypeOK, Thread
<1>2. CASE TxOnce
  <2>1. tx.pc = "act" /\ tx.f.f \in {"confirm", "data"}
    BY <1>2 DEF TxOnce, Runs
  <2> QED
    BY <1>2, <2>1, TestKnown, TxMoves DEF TxOnce
<1>3. CASE TxOnceFails
  BY <1>3, TxIdles DEF TxOnceFails, Runs
<1>4. ASSUME tx.pc = "act", tx.sent < (IF tx.f.f = "twice" THEN 2 ELSE Cycles),
             UNCHANGED <<dut, rx>>,
             \/ tx' = [tx EXCEPT !.sent = @ + 1]
             \/ tx' = [tx EXCEPT !.sent = @ + 1, !.failed = TRUE]
      PROVE  StationInv'
  <2>1. PICK k \in 0..Cycles : k = tx.sent + 1
    BY <1>1, <1>4, DutAssumption
  <2>2. CASE tx' = [tx EXCEPT !.sent = k]
    <3>1. PICK t : t = [tx EXCEPT !.sent = k]
      OBVIOUS
    <3>2. t \in Thread /\ t.pc = tx.pc /\ t.f = tx.f
      BY ONLY <1>1, <3>1, k \in 0..Cycles DEF Thread
    <3> QED
      BY <1>4, <2>2, <3>1, <3>2, TxSends
  <2>3. CASE tx' = [tx EXCEPT !.sent = k, !.failed = TRUE]
    <3>1. PICK t : t = [tx EXCEPT !.sent = k, !.failed = TRUE]
      OBVIOUS
    <3>2. t \in Thread /\ t.pc = tx.pc /\ t.f = tx.f
      BY ONLY <1>1, <3>1, k \in 0..Cycles DEF Thread
    <3> QED
      BY <1>4, <2>3, <3>1, <3>2, TxSends
  <2> QED
    BY <1>4, <2>1, <2>2, <2>3
<1>5. CASE TxMany
  BY <1>4, <1>5 DEF TxMany, Runs
<1>6. CASE TxManyFails
  BY <1>4, <1>6 DEF TxManyFails, Runs
<1>7. CASE TxManyDone
  <2>1. tx.pc = "act" /\ tx.f.f \in {"twice", "cyclic"} /\ TxNext /\ UNCHANGED rx
    BY <1>7 DEF TxManyDone, Runs
  <2>2. CASE tx.failed
    BY <1>7, <2>1, <2>2, TxIdles DEF TxManyDone
  <2>3. CASE ~tx.failed
    BY <1>7, <2>1, <2>3, TestKnown, TxMoves DEF TxManyDone
  <2> QED
    BY <2>2, <2>3
<1> QED
  BY <1>2, <1>3, <1>5, <1>6, <1>7

LEMMA StopActionsInv ==
  ASSUME StationInv, UNCHANGED stopping, TxStop \/ TxSignal \/ TxCount
  PROVE  StationInv'
<1> USE DEF StationInv
<1>1. dut \in Dut /\ tx \in Thread /\ rx \in RxPlaces
  BY DEF DutTypeOK, Thread
<1>2. dut.tx_stop_cnt \in 0..(MAX_STOP + 1)
  BY <1>1, DutFields
<1>3. CASE TxStop
  <2>1. tx.pc = "act" /\ UNCHANGED rx
    BY <1>3 DEF TxStop, Runs
  <2>2. ~(dut.tx_stop_cnt > MAX_STOP)
    BY <2>1 DEF CountInv
  <2>3. PICK v \in 0..(MAX_STOP + 1) : v = dut.tx_stop_cnt + 1
    BY <1>2, <2>2, DutAssumption
  <2>4. dut' = [dut EXCEPT !.tx_stop_cnt = v]
    BY <1>3, <2>3 DEF TxStop
  <2>5. /\ dut' \in Dut /\ dut'.tx_state = dut.tx_state /\ dut'.tc = dut.tc
        /\ dut'.rx_state = dut.rx_state
        /\ dut'.num_retry = dut.num_retry /\ dut'.stop = dut.stop
    BY <1>1, <2>4, SetStops
  <2>6. tx' \in Thread /\ tx'.pc = "signal"
    BY <1>1, <1>3 DEF TxStop, Thread, TxPlaces
  <2>7. DutTypeOK'
    BY <2>1, <2>5, <2>6 DEF DutTypeOK, Thread
  <2>8. RowsInv'
    BY <2>5, <2>6 DEF RowsInv, StationRow, StationReceives
  <2>9. CountInv' /\ StopInv'
    BY <2>1, <2>2, <2>5, <2>6 DEF CountInv, StopInv
  <2> QED
    BY <2>7, <2>8, <2>9
<1>4. CASE TxSignal
  <2>1. /\ tx.pc = "signal" /\ UNCHANGED dut
        /\ rx' = IF rx = "wait" THEN "woken" ELSE rx
    BY <1>4 DEF TxSignal
  <2>2. tx' \in Thread /\ tx'.pc = "count"
    BY <1>1, <1>4 DEF TxSignal, Thread, TxPlaces
  <2>3. DutTypeOK'
    BY <2>1, <2>2 DEF DutTypeOK, Thread, RxPlaces
  <2>4. RowsInv'
    BY <2>1, <2>2 DEF RowsInv, StationRow, StationReceives
  <2>5. CountInv' /\ StopInv'
    BY <2>1, <2>2 DEF CountInv, StopInv
  <2> QED
    BY <2>3, <2>4, <2>5
<1>5. CASE TxCount
  <2>1. tx.pc = "count" /\ UNCHANGED rx /\ TxNext
    BY <1>5 DEF TxCount
  <2>2. tx' \in Thread /\ tx'.pc = "loop"
    BY <1>1, <2>1, TxNextGood
  <2>3. /\ dut' \in Dut /\ dut'.tx_state = dut.tx_state /\ dut'.tc = dut.tc
        /\ dut'.rx_state = dut.rx_state /\ dut'.tx_stop_cnt = dut.tx_stop_cnt
        /\ dut'.num_retry = dut.num_retry
        /\ IF dut.tx_stop_cnt > MAX_STOP THEN dut'.stop ELSE dut'.stop = dut.stop
    <3>1. CASE dut.tx_stop_cnt > MAX_STOP
      <4>1. dut' = [dut EXCEPT !.stop = TRUE]
        BY <1>5, <3>1 DEF TxCount
      <4> QED
        BY <1>1, <3>1, <4>1, SetStop
    <3>2. CASE ~(dut.tx_stop_cnt > MAX_STOP)
      BY <1>1, <1>5, <3>2 DEF TxCount
    <3> QED
      BY <3>1, <3>2
  <2>4. DutTypeOK'
    BY <2>1, <2>2, <2>3 DEF DutTypeOK, Thread
  <2>5. RowsInv'
    BY <2>2, <2>3 DEF RowsInv, StationRow, StationReceives
  <2>6. CountInv' /\ StopInv'
    BY <2>1, <2>2, <2>3 DEF CountInv, StopInv
  <2> QED
    BY <2>4, <2>5, <2>6
<1> QED
  BY <1>3, <1>4, <1>5

-----------------------------------------------------------------------------
(* The receiver's steps, and the server thread's.                          *)

(* Only the receiver's place changes.                                      *)
LEMMA RxMoves ==
  ASSUME StationInv, UNCHANGED <<dut, tx, stopping>>, rx \notin {"join", "done"},
         rx' \in RxPlaces,
         dut.num_retry > MAX_RETRY => rx' \in {"loop", "join", "done"},
         rx' \in {"lock", "wait", "woken"} => dut.rx_state > 0,
         rx' = "start" => dut.rx_state = 0,
         dut.stop =>
           \/ stopping
           \/ dut.tx_stop_cnt > MAX_STOP
           \/ rx' \in {"loop", "start", "join", "done"}
           \/ rx' = "recv" /\ dut.rx_state = 0
  PROVE  StationInv'
<1> USE DEF StationInv
<1>1. DutTypeOK'
  BY DEF DutTypeOK
<1>2. RowsInv'
  BY DEF RowsInv, StationRow, StationReceives
<1>3. CountInv' /\ StopInv'
  BY DEF CountInv, StopInv
<1> QED
  BY <1>1, <1>2, <1>3

LEMMA RxMovesInv ==
  ASSUME StationInv, UNCHANGED stopping,
         RxLoop \/ RxTimeout \/ RxWait \/ RxSpuriousWakeup
  PROVE  StationInv'
<1> USE DEF StationInv
<1>1. CASE RxLoop
  BY <1>1, RxMoves DEF RxLoop, RxPlaces, CountInv, StopInv
<1>2. CASE RxTimeout
  BY <1>2, RxMoves DEF RxTimeout, RxPlaces, CountInv, StopInv
<1>3. CASE RxWait
  BY <1>3, RxMoves DEF RxWait, RxPlaces, CountInv, StopInv
<1>4. CASE RxSpuriousWakeup
  BY <1>4, RxMoves DEF RxSpuriousWakeup, RxPlaces, CountInv, StopInv
<1> QED
  BY <1>1, <1>2, <1>3, <1>4

(* sigma_uapsd_reset                                                       *)
LEMMA DutResetInv ==
  ASSUME StationInv, UNCHANGED <<tx, stopping>>, rx = "recv",
         NEW b \in BOOLEAN, DutReset(b)
  PROVE  StationInv'
<1> USE DEF StationInv
<1>1. dut \in Dut
  BY DEF DutTypeOK
<1>2. dut.num_retry \in 0..(MAX_RETRY + 1) /\ ~(dut.num_retry > MAX_RETRY)
  BY <1>1, DutFields DEF CountInv
<1>3. PICK v \in 0..(MAX_RETRY + 1) : v = dut.num_retry + 1
  BY <1>2, DutAssumption
<1>4. PICK s \in BOOLEAN : s = (dut.stop \/ v > MAX_RETRY)
  OBVIOUS
<1>5. dut' = [dut EXCEPT !.num_retry = v, !.reset_rx = FALSE, !.stop = s]
  BY <1>3, <1>4 DEF DutReset
<1>a. rx' = "loop"
  BY DEF DutReset
<1>6. /\ dut' \in Dut /\ dut'.tx_state = dut.tx_state /\ dut'.tc = dut.tc
      /\ dut'.rx_state = dut.rx_state /\ dut'.tx_stop_cnt = dut.tx_stop_cnt
      /\ dut'.num_retry = v /\ dut'.stop = s
  <2>1. PICK e : e = [dut EXCEPT !.num_retry = v, !.reset_rx = FALSE, !.stop = s]
    OBVIOUS
  <2>2. /\ e \in Dut /\ e.tx_state = dut.tx_state /\ e.tc = dut.tc
        /\ e.rx_state = dut.rx_state /\ e.tx_stop_cnt = dut.tx_stop_cnt
        /\ e.num_retry = v /\ e.stop = s
    BY ONLY <1>1, <2>1, v \in 0..(MAX_RETRY + 1), s \in BOOLEAN DEF Dut
  <2> QED
    BY ONLY <1>5, <2>1, <2>2
<1>7. DutTypeOK'
  BY <1>a, <1>6 DEF DutTypeOK, RxPlaces
<1>8. RowsInv'
  BY <1>6 DEF RowsInv, StationRow, StationReceives
<1>9. CountInv' /\ StopInv'
  BY <1>4, <1>a, <1>6 DEF CountInv, StopInv
<1> QED
  BY <1>7, <1>8, <1>9

(* The receiver goes on to its next function.                              *)
LEMMA RxAdvances ==
  ASSUME StationInv, UNCHANGED <<tx, stopping>>, rx \in {"recv", "start"},
         RxFunction \in {"start", "data"},
         dut' = [dut EXCEPT !.rx_state = @ + 1], rx' = "loop"
  PROVE  StationInv'
<1> USE DEF StationInv
<1>1. dut \in Dut
  BY DEF DutTypeOK
<1>2. PICK n \in 2..6 : n = Len(StationReceives)
  BY <1>1, RowsGood DEF GoodRxRow
<1>3. dut.rx_state \in 0..5 /\ dut.rx_state < n
  BY <1>1, <1>2, DutFields DEF RowsInv
<1>4. PICK i \in 1..n : i = dut.rx_state + 1
  BY <1>3
<1>5. StationReceives[i] \in {"start", "data"}
  BY <1>4 DEF RxFunction, StationReceives
<1>6. i < n
  BY <1>1, <1>2, <1>4, <1>5, RowsGood DEF GoodRxRow
<1>7. PICK v \in 0..5 : v = dut.rx_state + 1 /\ v < n
  BY <1>3, <1>4, <1>6
<1>8. dut' = [dut EXCEPT !.rx_state = v]
  BY <1>7
<1>9. /\ dut' \in Dut /\ dut'.rx_state = v /\ dut'.tc = dut.tc
      /\ dut'.tx_state = dut.tx_state /\ dut'.tx_stop_cnt = dut.tx_stop_cnt
      /\ dut'.num_retry = dut.num_retry /\ dut'.stop = dut.stop
  BY ONLY <1>1, <1>8, v \in 0..5, SetRxState
<1>10. DutTypeOK'
  BY <1>9 DEF DutTypeOK, RxPlaces
<1>11. RowsInv'
  BY <1>2, <1>3, <1>7, <1>9 DEF RowsInv, StationRow, StationReceives
<1>12. CountInv' /\ StopInv'
  BY <1>9 DEF CountInv, StopInv
<1> QED
  BY <1>10, <1>11, <1>12

(* Which function the receiver is at.                                      *)
LEMMA RxFunctionGood ==
  ASSUME StationInv
  PROVE  RxFunction = "start" <=> dut.rx_state = 0
<1>1. dut \in Dut
  BY DEF StationInv, DutTypeOK
<1>2. PICK n \in 2..6 : n = Len(StationReceives)
  BY <1>1, RowsGood DEF GoodRxRow
<1>3. dut.rx_state \in 0..5 /\ dut.rx_state < n
  BY <1>1, <1>2, DutFields DEF StationInv, RowsInv
<1>4. PICK i \in 1..n : i = dut.rx_state + 1
  BY <1>3
<1>5. StationReceives[i] = "start" <=> i = 1
  BY <1>1, <1>2, RowsGood DEF GoodRxRow
<1>6. RxFunction = StationReceives[i]
  BY <1>4 DEF RxFunction, StationReceives
<1> QED
  BY <1>3, <1>4, <1>5, <1>6

(* uapsd_rx_start: the test changes while the sender is at its first       *)
(* function.                                                               *)
LEMMA RxStartInv ==
  ASSUME StationInv, UNCHANGED <<tx, stopping>>, rx = "recv",
         NEW p, RxStart(p)
  PROVE  StationInv'
<1> USE DEF StationInv
<1>1. dut \in Dut
  BY DEF DutTypeOK
<1>2. dut.rx_state = 0 /\ dut.tx_state \in 0..10
  BY <1>1, RxFunctionGood, DutFields DEF RxStart
<1>3. dut.tx_state = 0
  BY <1>2 DEF RowsInv
<1>4. CASE p.msg \notin Tests
  BY <1>4, RxMoves DEF RxStart, RxPlaces, CountInv, StopInv
<1>5. CASE p.msg \in Tests
  <2>1. PICK m \in Tests : m = p.msg
    BY <1>5
  <2>2. dut' = [dut EXCEPT !.tc = m] /\ rx' = "start"
    BY <1>5, <2>1 DEF RxStart
  <2>3. /\ dut' \in Dut /\ dut'.rx_state = 0 /\ dut'.tx_state = 0
        /\ dut'.tx_stop_cnt = dut.tx_stop_cnt
        /\ dut'.num_retry = dut.num_retry /\ dut'.stop = dut.stop
    BY <1>1, <1>2, <1>3, <2>2, SetTest
  <2>4. DutTypeOK'
    BY <2>2, <2>3 DEF DutTypeOK, RxPlaces
  <2>5. Len(StationRow') \in 1..11 /\ Len(StationReceives') \in 2..6
    BY <2>3, DutFields, TxTableGood, RxTableGood
       DEF StationRow, StationReceives, GoodTxRow, GoodRxRow
  <2>6. RowsInv'
    <3>1. PICK n1 \in 1..11, n2 \in 2..6 :
            n1 = Len(StationRow') /\ n2 = Len(StationReceives')
      BY <2>5
    <3>2. 0 < Len(StationRow') /\ 0 < Len(StationReceives')
      BY <3>1
    <3>3. tx.pc = "act" => tx.f.f = "start"
      BY <1>3 DEF RowsInv
    <3> QED
      BY <2>3, <3>2, <3>3 DEF RowsInv
  <2>7. CountInv' /\ StopInv'
    BY <1>2, <2>2, <2>3 DEF CountInv, StopInv
  <2> QED
    BY <2>4, <2>6, <2>7
<1> QED
  BY <1>4, <1>5

LEMMA RxPacketInv ==
  ASSUME StationInv, RxPacket, UNCHANGED stopping
  PROVE  StationInv'
<1>1. rx = "recv" /\ UNCHANGED tx
  BY DEF RxPacket
<1>2. dut.reset_rx \in BOOLEAN
  BY DutFields DEF StationInv, DutTypeOK
<1>3. PICK p : p = Head(down)
  OBVIOUS
<1>4. DutReset(TRUE) \/ RxStart(p) \/ RxData(p) \/ RxStop(p)
  BY <1>3 DEF RxPacket
<1>5. CASE DutReset(TRUE)
  BY <1>1, <1>5, DutResetInv
<1>6. CASE RxStart(p)
  BY <1>1, <1>6, RxStartInv
<1>7. CASE RxData(p)
  <2>1. CASE p.msg = "DEFAULT"
    BY <1>1, <1>7, <2>1, RxAdvances DEF RxData
  <2>2. CASE p.msg # "DEFAULT"
    BY <1>1, <1>2, <1>7, <2>2, DutResetInv DEF RxData
  <2> QED
    BY <2>1, <2>2
<1>8. CASE RxStop(p)
  <2>1. dut.rx_state # 0 /\ dut.rx_state \in 0..5
    BY <1>8, RxFunctionGood, DutFields DEF RxStop, StationInv, DutTypeOK
  <2> QED
    BY <1>1, <1>8, <2>1, RxMoves DEF RxStop, RxPlaces, StationInv, CountInv, StopInv
<1> QED
  BY <1>4, <1>5, <1>6, <1>7, <1>8

LEMMA RxStartedInv ==
  ASSUME StationInv, RxStarted, UNCHANGED stopping
  PROVE  StationInv'
<1>1. rx = "start" /\ rx' = "loop" /\ UNCHANGED tx
      /\ dut' = [dut EXCEPT !.rx_state = @ + 1]
  BY DEF RxStarted
<1>2. RxFunction = "start"
  BY <1>1, RxFunctionGood DEF StationInv, StopInv
<1> QED
  BY <1>1, <1>2, RxAdvances

LEMMA EndInv ==
  ASSUME StationInv, \/ (RxWoken \/ RxJoin) /\ UNCHANGED stopping
                     \/ StopStream
  PROVE  StationInv'
<1> USE DEF StationInv
<1>1. dut \in Dut
  BY DEF DutTypeOK
<1>2. CASE RxJoin /\ UNCHANGED stopping
  <2>1. DutTypeOK'
    BY <1>2 DEF RxJoin, DutTypeOK, RxPlaces
  <2>2. RowsInv'
    BY <1>2 DEF RxJoin, RowsInv, StationRow, StationReceives
  <2>3. CountInv' /\ StopInv'
    BY <1>2 DEF RxJoin, CountInv, StopInv
  <2> QED
    BY <2>1, <2>2, <2>3
<1>3. CASE (RxWoken /\ UNCHANGED stopping) \/ StopStream
  <2>1. /\ UNCHANGED tx
        /\ \/ rx = "woken" /\ rx' = "loop" /\ UNCHANGED stopping
           \/ UNCHANGED rx /\ stopping' = TRUE
        /\ dut' = [dut EXCEPT !.stop = TRUE]
    BY <1>3 DEF RxWoken, StopStream
  <2>2. /\ dut' \in Dut /\ dut'.tx_state = dut.tx_state /\ dut'.tc = dut.tc
        /\ dut'.rx_state = dut.rx_state /\ dut'.tx_stop_cnt = dut.tx_stop_cnt
        /\ dut'.num_retry = dut.num_retry /\ dut'.stop
    BY <1>1, <2>1, SetStop
  <2>3. DutTypeOK'
    BY <2>1, <2>2 DEF DutTypeOK, RxPlaces
  <2>4. RowsInv'
    BY <2>1, <2>2 DEF RowsInv, StationRow, StationReceives
  <2>5. CountInv' /\ StopInv'
    BY <2>1, <2>2 DEF CountInv, StopInv
  <2> QED
    BY <2>3, <2>4, <2>5
<1> QED
  BY <1>2, <1>3

-----------------------------------------------------------------------------
(* The packets under way.                                                  *)

LinkInv == up \in Queue /\ down \in Queue

(* What a step of the station puts into the queue to the console.          *)
LEMMA StationLink ==
  ASSUME StationInv, LinkInv,
         TxStep \/ RxStep \/ RxSpuriousWakeup \/ StopStream
  PROVE  LinkInv'
<1>1. \A ps \in Seq(Packet) : up' = Sent(up, ps) => up' \in Queue
  BY SentGood DEF LinkInv, Queue
<1>2. tx \in Thread /\ tx.f \in TxFunctions /\ tx.f.ac \in Categories
  BY DEF StationInv, DutTypeOK, Thread, TxFunctions
<1>3. \A p \in Packet : <<p>> \in Seq(Packet)
  OBVIOUS
<1>4. /\ Msg("HELLO") \in Packet /\ Msg("CONFIRM") \in Packet /\ Msg("STOP") \in Packet
      /\ Data(tx.f.ac) \in Packet
  BY <1>2, ControlPackets, PacketsGood DEF Messages
<1>5. CASE TxHello
  BY <1>1, <1>3, <1>4, <1>5 DEF TxHello, LinkInv
<1>6. CASE TxOnce
  BY <1>1, <1>3, <1>4, <1>6 DEF TxOnce, LinkInv
<1>7. CASE TxMany
  BY <1>1, <1>3, <1>4, <1>7 DEF TxMany, LinkInv
<1>8. CASE TxStop
  BY <1>1, <1>3, <1>4, <1>8 DEF TxStop, LinkInv
<1>9. CASE RxPacket
  <2>1. down # <<>> /\ down' = Tail(down)
    BY <1>9 DEF RxPacket
  <2>2. down' \in Queue
    BY <2>1, HeadTailGood DEF LinkInv
  <2>3. \A n, b : ResetPackets(n, b) \in Seq(Packet)
    <3>1. TAKE n, b
    <3>2. PICK s1, s2 :
            /\ s1 = IF n > MAX_RETRY THEN <<Msg("RESET_STOP")>> ELSE <<>>
            /\ s2 = <<Msg(IF b THEN "RESET_RESP" ELSE "RESET")>>
      OBVIOUS
    <3>3. s1 \in Seq(Packet) /\ s2 \in Seq(Packet)
      BY <3>2, ControlPackets, NoPackets DEF Messages
    <3>4. s1 \o s2 \in Seq(Packet)
      BY ONLY <3>3, ConcatProperties, Zenon
    <3> QED
      BY <3>2, <3>4 DEF ResetPackets
  <2>4. \A b : DutReset(b) => up' \in Queue
    BY <1>1, <2>3 DEF DutReset
  <2>5. PICK p : DutReset(TRUE) \/ RxStart(p) \/ RxData(p) \/ RxStop(p)
    BY <1>9 DEF RxPacket
  <2>6. up' \in Queue
    BY <2>4, <2>5 DEF RxStart, RxData, RxStop, LinkInv
  <2> QED
    BY <2>2, <2>6 DEF LinkInv
<1>10. CASE UNCHANGED <<up, down>>
  BY <1>10 DEF LinkInv
<1> QED
  BY <1>5, <1>6, <1>7, <1>8, <1>9, <1>10
     DEF TxStep, SendFails, RxStep, TxLoop, TestReceived, TooManyHellos, TxOnceFails,
         TxManyFails, TxManyDone, TxSignal, TxCount, RxLoop, RxTimeout, RxStarted,
         RxWait, RxWoken, RxJoin, RxSpuriousWakeup, StopStream

LEMMA StationStep ==
  ASSUME StationInv, TxStep \/ RxStep \/ RxSpuriousWakeup \/ StopStream
  PROVE  StationInv'
<1>1. CASE TxStep
  BY <1>1, TxLoopInv, StartActionsInv, DataActionsInv, StopActionsInv
     DEF TxStep, SendFails
<1>2. CASE RxStep
  BY <1>2, RxMovesInv, RxPacketInv, RxStartedInv, EndInv DEF RxStep
<1>3. CASE RxSpuriousWakeup
  BY <1>3, RxMovesInv DEF RxSpuriousWakeup
<1>4. CASE StopStream
  BY <1>4, EndInv
<1> QED
  BY <1>1, <1>2, <1>3, <1>4

-----------------------------------------------------------------------------
(* The whole.                                                              *)

ConsoleInv == ConGood(con, ConsoleRetries + 2)

IInv == StationInv /\ ConsoleInv /\ LinkInv

LEMMA InitInv == Init => IInv
<1> SUFFICES ASSUME Init PROVE IInv
  OBVIOUS
<1> USE DutAssumption, ConsoleAssumption
<1>1. FirstTest \in Tests /\ GoodTxRow(sta_uapsd_tx_tbl[FirstTest])
      /\ GoodRxRow(sta_uapsd_recv_tbl[FirstTest])
  BY TxTableGood, RxTableGood DEF FirstTest, Tests
<1>2. dut \in Dut /\ dut.tc = FirstTest /\ dut.tx_state = 0 /\ dut.rx_state = 0
      /\ dut.num_retry = 0 /\ dut.tx_stop_cnt = 0 /\ ~dut.stop
  BY <1>1 DEF Init, DutInit, Dut
<1>3. PICK g : g = sta_uapsd_tx_tbl[FirstTest][1]
  OBVIOUS
<1>4. g \in TxFunctions
  BY <1>1, <1>3 DEF GoodTxRow
<1>5. tx \in Thread /\ tx.pc = "loop"
  BY <1>3, <1>4 DEF Init, DutInit, Thread, TxPlaces
<1>6. rx = "loop" /\ stopping = FALSE
  BY DEF Init, DutInit
<1>7. StationInv
  <2>1. DutTypeOK
    BY <1>2, <1>5, <1>6 DEF DutTypeOK, Thread, RxPlaces
  <2>2. RowsInv
    <3>1. PICK n1 \in 1..11, n2 \in 2..6 :
            n1 = Len(StationRow) /\ n2 = Len(StationReceives)
      BY <1>1, <1>2 DEF StationRow, StationReceives, GoodTxRow, GoodRxRow
    <3>2. 0 < Len(StationRow) /\ 0 < Len(StationReceives)
      BY <3>1
    <3> QED
      BY <1>2, <1>5, <3>2 DEF RowsInv
  <2>3. CountInv /\ StopInv
    BY <1>2, <1>5, <1>6 DEF CountInv, StopInv
  <2> QED
    BY <2>1, <2>2, <2>3 DEF StationInv
<1>8. ConsoleInv
  <2>1. PICK tc \in Tests :
          con = [tc |-> tc, state |-> 0, can_quit |-> FALSE, reset |-> FALSE,
                 reset_rx |-> FALSE, num_retry |-> 0, stop |-> FALSE,
                 expired |-> FALSE]
    BY PlayedAssumption DEF Init, ConsoleInit
  <2>2. con \in ConFields(ConsoleRetries + 2)
    BY <2>1 DEF ConFields
  <2>3. Len(uapsd_console_state_tbl[tc]) \in 1..9
    BY ConsoleTableGood DEF GoodConsoleRow
  <2> QED
    BY <2>1, <2>2, <2>3 DEF ConsoleInv, ConGood
<1>9. LinkInv
  BY NoPackets, LinkAssumption DEF Init, LinkInv, Queue
<1> QED
  BY <1>7, <1>8, <1>9 DEF IInv

LEMMA ConsoleStep ==
  ASSUME ConsoleInv, LinkInv, ConsolePacket \/ ConsoleExpires
  PROVE  ConsoleInv' /\ LinkInv'
<1> USE ConsoleAssumption
<1>1. CASE ConsolePacket
  <2>1. ~con.stop /\ up # <<>> /\ up' = Tail(up)
        /\ con' = Handled(con, Head(up)).con
        /\ down' = Sent(down, Handled(con, Head(up)).tx)
    BY <1>1 DEF ConsolePacket
  <2>2. Head(up) \in Packet /\ up' \in Queue
    BY <2>1, HeadTailGood DEF LinkInv
  <2>3. ConGood(con, ConsoleRetries)
    <3>1. con \in ConFields(ConsoleRetries + 2)
      BY DEF ConsoleInv, ConGood
    <3>2. con.num_retry \in 0..ConsoleRetries
      <4>1. con.num_retry \in 0..(ConsoleRetries + 2)
        BY ONLY <3>1 DEF ConFields
      <4>2. ~(con.num_retry > ConsoleRetries)
        BY <2>1 DEF ConsoleInv, ConGood
      <4> QED
        BY ONLY <4>1, <4>2, ConsoleAssumption
    <3>3. con \in ConFields(ConsoleRetries)
      BY ONLY <3>1, <3>2 DEF ConFields
    <3> QED
      BY <3>3 DEF ConsoleInv, ConGood
  <2>4. GoodResult(Handled(con, Head(up)), ConsoleRetries + 2)
    BY <2>2, <2>3, HandledGood
  <2>5. down' \in Queue
    BY <2>1, <2>4, SentGood DEF GoodResult, LinkInv, Queue
  <2> QED
    BY <2>1, <2>2, <2>4, <2>5 DEF GoodResult, ConsoleInv, LinkInv
<1>2. CASE ConsoleExpires
  <2>1. PICK c : c = [con EXCEPT !.stop = TRUE, !.expired = TRUE]
    OBVIOUS
  <2>2. con \in ConFields(ConsoleRetries + 2)
    BY DEF ConsoleInv, ConGood
  <2>3. c \in ConFields(ConsoleRetries + 2)
    BY ONLY <2>1, <2>2 DEF ConFields
  <2>4. c.tc = con.tc /\ c.state = con.state /\ c.stop
    BY ONLY <2>1, <2>2 DEF ConFields
  <2> QED
    BY <1>2, <2>1, <2>3, <2>4 DEF ConsoleExpires, ConsoleInv, ConGood, LinkInv
<1> QED
  BY <1>1, <1>2

LEMMA NextInv == IInv /\ [Next]_vars => IInv'
<1> SUFFICES ASSUME IInv, [Next]_vars PROVE IInv'
  OBVIOUS
<1> USE DEF IInv
<1>1. CASE (Sender \/ RxStep \/ RxSpuriousWakeup \/ StopStream) /\ UNCHANGED con
  <2>1. StationInv' /\ LinkInv'
    BY <1>1, StationStep, StationLink DEF Sender
  <2>2. ConsoleInv'
    BY <1>1 DEF ConsoleInv, ConGood, ConFields
  <2> QED
    BY <2>1, <2>2
<1>2. CASE (ConsolePacket \/ Expires) /\ UNCHANGED dutVars
  <2>1. ConsoleInv' /\ LinkInv'
    BY <1>2, ConsoleStep DEF Expires
  <2>2. StationInv'
    BY <1>2 DEF dutVars, StationInv, DutTypeOK, RowsInv, CountInv, StopInv,
                StationRow, StationReceives
  <2> QED
    BY <2>1, <2>2
<1>3. CASE (Lose \/ Overtake) /\ UNCHANGED <<dutVars, con>>
  <2>1. LinkInv'
    BY <1>3, LostGood, OvertakenGood DEF Lose, Overtake, LinkInv
  <2>2. StationInv' /\ ConsoleInv'
    BY <1>3 DEF dutVars, StationInv, DutTypeOK, RowsInv, CountInv, StopInv,
                StationRow, StationReceives, ConsoleInv, ConGood
  <2> QED
    BY <2>1, <2>2
<1>4. CASE UNCHANGED vars
  BY <1>4 DEF vars, StationInv, DutTypeOK, RowsInv, CountInv, StopInv, StationRow,
              StationReceives, ConsoleInv, ConGood, LinkInv
<1> QED
  BY <1>1, <1>2, <1>3, <1>4 DEF Next

LEMMA Invariant == Spec => []IInv
BY InitInv, NextInv, PTL DEF Spec

-----------------------------------------------------------------------------
(***************************************************************************)
(* The three tables of function pointers are never read beyond their rows, *)
(* the retry counters go no further than one or two beyond their limits,   *)
(* and only packets are under way (send_uapsd, receive_uapsd,              *)
(* send_uapsd_console), for every limit, queue and fault.                  *)
(***************************************************************************)
THEOREM UapsdTypeCorrect == Spec => []TypeOK
<1>1. IInv => TypeOK
  <2>1. ConGood(con, ConsoleRetries + 2) => con \in Console
    BY DEF ConGood, ConFields, Console
  <2> QED
    BY <2>1 DEF IInv, StationInv, ConsoleInv, LinkInv, Queue, TypeOK, ConsoleTypeOK
<1> QED
  BY <1>1, Invariant, PTL

(***************************************************************************)
(* The receiver waits in vain for its sender (sigma_uapsd_stop) only when  *)
(* a command stops the stream or the sender had sent its last STOP and     *)
(* given up, for every limit, queue and fault.                             *)
(***************************************************************************)
THEOREM SignalsMissed == Spec => []MissesLastSignalOnly
<1>1. IInv => MissesLastSignalOnly
  BY DEF IInv, StationInv, StopInv, MissesLastSignalOnly
<1> QED
  BY <1>1, Invariant, PTL

-----------------------------------------------------------------------------
(* The packets that the console may advance on.                            *)

(* A packet of the cyclic test's data never makes the console advance; a   *)
(* RESET_STOP does so once, and stops it.                                  *)
Counts(tc, p) ==
  /\ p.msg \notin {"HELLO", "RESET_STOP"}
  /\ tc = "L_1" => p # Data("VO")
Counted(tc, q) == {i \in DOMAIN q : Counts(tc, q[i])}
Weight(tc, q) == Cardinality(Counted(tc, q))
Has(q, m) == \E i \in DOMAIN q : q[i].msg = m

LEMMA WeightNat ==
  ASSUME NEW tc, NEW q \in Queue
  PROVE  /\ IsFiniteSet(Counted(tc, q)) /\ Weight(tc, q) \in Nat
         /\ Counted(tc, q) # {} => Weight(tc, q) > 0
<1>1. Len(q) \in Nat /\ Counted(tc, q) \in SUBSET (1..Len(q))
  BY DEF Queue, Counted
<1>2. IsFiniteSet(1..Len(q))
  BY <1>1, FS_Interval
<1>3. IsFiniteSet(Counted(tc, q))
  BY <1>1, <1>2, FS_Subset
<1> QED BY <1>3, FS_CardinalityType, FS_EmptySet DEF Weight

(* The counted packets of one queue come from different ones of another.   *)
LEMMA WeightLess ==
  ASSUME NEW tc, NEW q \in Queue, NEW S, NEW f \in [S -> Counted(tc, q)],
         \A i, j \in S : f[i] = f[j] => i = j
  PROVE  /\ IsFiniteSet(S) /\ Cardinality(S) \in Nat
         /\ Cardinality(S) <= Weight(tc, q)
         /\ \A k \in Counted(tc, q) :
              (\A i \in S : f[i] # k) => Cardinality(S) < Weight(tc, q)
<1>1. IsFiniteSet(Counted(tc, q)) /\ Weight(tc, q) \in Nat
  BY WeightNat
<1>2. f \in Injection(S, Counted(tc, q))
  BY DEF Injection, IsInjective
<1>3. /\ IsFiniteSet(S) /\ Cardinality(S) <= Weight(tc, q)
      /\ Cardinality(S) = Weight(tc, q) => f \in Surjection(S, Counted(tc, q))
  BY <1>1, <1>2, FS_Injection DEF Weight
<1>4. Cardinality(S) \in Nat
  BY <1>3, FS_CardinalityType
<1>5. ASSUME NEW k \in Counted(tc, q), \A i \in S : f[i] # k
      PROVE  Cardinality(S) # Weight(tc, q)
  BY <1>3, <1>5 DEF Surjection
<1> QED BY <1>1, <1>3, <1>4, <1>5

(* The console takes the first packet.                                     *)
LEMMA TailWeighs ==
  ASSUME NEW tc, NEW q \in Queue, q # <<>>
  PROVE  /\ Weight(tc, Tail(q)) <= Weight(tc, q)
         /\ Counts(tc, Head(q)) => Weight(tc, Tail(q)) < Weight(tc, q)
         /\ \A m : Has(q, m) => Head(q).msg = m \/ Has(Tail(q), m)
         /\ \A m : Has(Tail(q), m) => Has(q, m)
<1>1. PICK n \in Nat \ {0} : n = Len(q)
  BY DEF Queue
<1>2. PICK r : r = Tail(q)
  OBVIOUS
<1>3. /\ DOMAIN q = 1..n /\ DOMAIN r = 1..(n - 1) /\ Head(q) = q[1]
      /\ \A i \in 1..(n - 1) : r[i] = q[i + 1]
  BY <1>1, <1>2 DEF Queue
<1>4. PICK f : f = [i \in Counted(tc, r) |-> i + 1]
  OBVIOUS
<1>5. /\ f \in [Counted(tc, r) -> Counted(tc, q)]
      /\ \A i, j \in Counted(tc, r) : f[i] = f[j] => i = j
      /\ \A i \in Counted(tc, r) : f[i] # 1
  BY <1>1, <1>3, <1>4 DEF Counted
<1>6. Counts(tc, Head(q)) => 1 \in Counted(tc, q)
  BY <1>1, <1>3 DEF Counted
<1>7. /\ Weight(tc, r) <= Weight(tc, q)
      /\ Counts(tc, Head(q)) => Weight(tc, r) < Weight(tc, q)
  BY <1>5, <1>6, WeightLess DEF Weight
<1>8. ASSUME NEW m, Has(q, m) PROVE Head(q).msg = m \/ Has(r, m)
  <2>1. PICK i \in 1..n : q[i].msg = m
    BY <1>3, <1>8 DEF Has
  <2>2. CASE i # 1
    <3>1. i - 1 \in 1..(n - 1) /\ r[i - 1] = q[i]
      BY <1>1, <1>3, <2>2
    <3> QED BY <1>3, <2>1, <3>1 DEF Has
  <2> QED BY <1>3, <2>1, <2>2
<1>9. ASSUME NEW m, Has(r, m) PROVE Has(q, m)
  BY <1>1, <1>3, <1>9 DEF Has
<1> QED BY <1>2, <1>7, <1>8, <1>9

(* A packet is lost.                                                       *)
LEMMA LostWeighs ==
  ASSUME NEW tc, NEW q \in Queue, NEW r, Lost(q, r)
  PROVE  /\ Weight(tc, r) <= Weight(tc, q)
         /\ \A m : Has(r, m) => Has(q, m)
         /\ \A m : Has(q, m) =>
              \/ Has(r, m)
              \/ \E p \in Packet : p.msg = m /\
                   (Counts(tc, p) => Weight(tc, r) < Weight(tc, q))
<1>1. q \in Seq(Packet)
  BY DEF Queue
<1>2. PICK n \in Nat : n = Len(q)
  BY <1>1
<1>3. PICK k \in 1..n : r = RemoveAt(q, k)
  BY <1>1, <1>2 DEF Lost
<1>4. PICK s, t : s = SubSeq(q, 1, k - 1) /\ t = SubSeq(q, k + 1, n)
  OBVIOUS
<1>5. /\ s \in Seq(Packet) /\ Len(s) = k - 1
      /\ \A i \in 1..(k - 1) : s[i] = q[i]
  BY <1>1, <1>2, <1>3, <1>4, SubSeqProperties
<1>6. /\ t \in Seq(Packet) /\ Len(t) = n - k
      /\ \A i \in 1..(n - k) : t[i] = q[k + i]
  <2>1. \A i \in 1..(n - k) : t[i] = q[(k + 1) + i - 1]
    BY <1>1, <1>2, <1>3, <1>4, SubSeqProperties
  <2>2. \A i \in 1..(n - k) : (k + 1) + i - 1 = k + i
    BY <1>3
  <2> QED BY <1>1, <1>2, <1>3, <1>4, <2>1, <2>2, SubSeqProperties
<1>7. r = s \o t
  BY <1>2, <1>3, <1>4 DEF RemoveAt
<1>8. /\ DOMAIN r = 1..(n - 1) /\ DOMAIN q = 1..n
      /\ \A i \in 1..(n - 1) : r[i] = q[IF i < k THEN i ELSE i + 1]
  <2>1. /\ Len(r) = Len(s) + Len(t) /\ r \in Seq(Packet)
        /\ \A i \in 1..(Len(s) + Len(t)) :
             r[i] = IF i <= Len(s) THEN s[i] ELSE t[i - Len(s)]
    BY <1>5, <1>6, <1>7, ConcatProperties
  <2>0. Len(s) + Len(t) = n - 1
    BY <1>2, <1>3, <1>5, <1>6
  <2>2. \A i \in 1..(n - 1) : ~(i < k) =>
          i - (k - 1) \in 1..(n - k) /\ k + (i - (k - 1)) = i + 1
    BY <1>3
  <2>3. ASSUME NEW i \in 1..(n - 1) PROVE r[i] = q[IF i < k THEN i ELSE i + 1]
    <3>1. CASE i < k
      <4>1. i \in 1..(k - 1) /\ i <= Len(s)
        BY <1>5, <3>1
      <4>2. r[i] = s[i]
        BY <2>0, <2>1, <4>1
      <4> QED BY <1>5, <3>1, <4>1, <4>2
    <3>2. CASE ~(i < k)
      <4>1. ~(i <= Len(s)) /\ i - Len(s) = i - (k - 1)
        BY <1>3, <1>5, <3>2
      <4>2. r[i] = t[i - Len(s)]
        BY <2>0, <2>1, <4>1
      <4>3. t[i - (k - 1)] = q[i + 1]
        <5>1. i - (k - 1) \in 1..(n - k) /\ k + (i - (k - 1)) = i + 1
          BY <2>2, <3>2
        <5> QED BY <1>6, <5>1
      <4> QED BY <3>2, <4>1, <4>2, <4>3
    <3> QED BY <3>1, <3>2
  <2>4. DOMAIN r = 1..(n - 1) /\ DOMAIN q = 1..n
    BY <1>1, <1>2, <2>0, <2>1
  <2> QED BY <2>3, <2>4
<1>9. PICK f : f = [i \in Counted(tc, r) |-> IF i < k THEN i ELSE i + 1]
  OBVIOUS
<1>10. /\ f \in [Counted(tc, r) -> Counted(tc, q)]
       /\ \A i, j \in Counted(tc, r) : f[i] = f[j] => i = j
       /\ \A i \in Counted(tc, r) : f[i] # k
  <2>1. \A i \in Counted(tc, r) :
          i \in 1..(n - 1) /\ f[i] = (IF i < k THEN i ELSE i + 1)
    BY <1>8, <1>9 DEF Counted
  <2>2. \A i \in Counted(tc, r) : f[i] \in 1..n /\ q[f[i]] = r[i]
    BY <1>3, <1>8, <2>1
  <2>3. \A i \in Counted(tc, r) : f[i] \in Counted(tc, q)
    BY <1>8, <2>2 DEF Counted
  <2> QED BY <1>3, <1>9, <2>1, <2>3
<1>11. /\ Weight(tc, r) <= Weight(tc, q)
       /\ k \in Counted(tc, q) => Weight(tc, r) < Weight(tc, q)
  BY <1>10, WeightLess DEF Weight
<1>12. ASSUME NEW m, Has(r, m) PROVE Has(q, m)
  <2>1. PICK i \in 1..(n - 1) : r[i].msg = m
    BY <1>8, <1>12 DEF Has
  <2>2. PICK j \in 1..n : j = IF i < k THEN i ELSE i + 1
    BY <1>3
  <2>3. q[j].msg = m
    BY <1>8, <2>1, <2>2
  <2> QED BY <1>8, <2>3 DEF Has
<1>13. ASSUME NEW m, Has(q, m), ~Has(r, m)
       PROVE  \E p \in Packet : p.msg = m /\
                (Counts(tc, p) => Weight(tc, r) < Weight(tc, q))
  <2>1. PICK i \in 1..n : q[i].msg = m
    BY <1>8, <1>13 DEF Has
  <2>2. i >= k
    <3>1. CASE i < k
      <4>1. i \in 1..(n - 1) /\ r[i] = q[i]
        BY <1>3, <1>8, <3>1
      <4> QED BY <1>8, <1>13, <2>1, <4>1 DEF Has
    <3> QED BY <1>3, <3>1
  <2>3. i <= k
    <3>1. CASE i > k
      <4>1. i - 1 \in 1..(n - 1) /\ ~(i - 1 < k) /\ (i - 1) + 1 = i
        BY <1>3, <3>1
      <4>2. r[i - 1] = q[i]
        BY <1>8, <4>1
      <4> QED BY <1>8, <1>13, <2>1, <4>1, <4>2 DEF Has
    <3> QED BY <1>3, <3>1
  <2>4. i = k
    BY <1>3, <2>2, <2>3
  <2>5. q[k] \in Packet /\ q[k].msg = m
    BY <1>1, <1>2, <2>1, <2>4
  <2>6. Counts(tc, q[k]) => k \in Counted(tc, q)
    BY <1>3, <1>8 DEF Counted
  <2> QED BY <1>11, <2>5, <2>6
<1> QED BY <1>11, <1>12, <1>13

(* A packet overtakes another.                                             *)
LEMMA OvertakenWeighs ==
  ASSUME NEW tc, NEW q \in Queue, NEW r, Overtaken(q, r)
  PROVE  /\ Weight(tc, r) <= Weight(tc, q)
         /\ \A m : Has(r, m) <=> Has(q, m)
<1>1. q \in Seq(Packet)
  BY DEF Queue
<1>2. PICK n \in Nat : n = Len(q)
  BY <1>1
<1>3. PICK k \in 1..(n - 1) : r = [q EXCEPT ![k] = q[k + 1], ![k + 1] = q[k]]
  BY <1>2 DEF Overtaken
<1>4. PICK g : g = [i \in 1..n |-> IF i = k THEN k + 1 ELSE IF i = k + 1 THEN k ELSE i]
  OBVIOUS
<1>5. /\ DOMAIN q = 1..n /\ DOMAIN r = 1..n
      /\ \A i \in 1..n : g[i] \in 1..n /\ g[g[i]] = i /\ r[i] = q[g[i]]
  BY <1>1, <1>2, <1>3, <1>4
<1>6. PICK f : f = [i \in Counted(tc, r) |-> g[i]]
  OBVIOUS
<1>7. /\ f \in [Counted(tc, r) -> Counted(tc, q)]
      /\ \A i, j \in Counted(tc, r) : f[i] = f[j] => i = j
  <2>1. \A i \in Counted(tc, r) : i \in 1..n /\ f[i] = g[i]
    BY <1>5, <1>6 DEF Counted
  <2>2. \A i \in Counted(tc, r) : g[i] \in Counted(tc, q)
    BY <1>5 DEF Counted
  <2>3. ASSUME NEW i \in Counted(tc, r), NEW j \in Counted(tc, r), f[i] = f[j]
        PROVE  i = j
    BY <1>5, <2>1, <2>3
  <2> QED BY <1>6, <2>2, <2>3
<1>8. Weight(tc, r) <= Weight(tc, q)
  BY <1>7, WeightLess DEF Weight
<1>9. ASSUME NEW m, Has(r, m) PROVE Has(q, m)
  BY <1>5, <1>9 DEF Has
<1>10. ASSUME NEW m, Has(q, m) PROVE Has(r, m)
  <2>1. PICK i \in 1..n : q[i].msg = m
    BY <1>5, <1>10 DEF Has
  <2>2. g[i] \in 1..n /\ r[g[i]] = q[i]
    BY <1>5
  <2> QED BY <1>5, <2>1, <2>2 DEF Has
<1> QED BY <1>8, <1>9, <1>10

(* What is sent comes after what is under way, up to the bound.            *)
LEMMA SentIs ==
  ASSUME NEW q \in Queue, NEW ps \in Seq(Packet)
  PROVE  \E n, m \in Nat :
           /\ n <= m /\ m <= n + Len(ps)
           /\ DOMAIN q = 1..n /\ DOMAIN Sent(q, ps) = 1..m
           /\ \A i \in 1..n : Sent(q, ps)[i] = q[i]
           /\ \A i \in (n + 1)..m : Sent(q, ps)[i] = ps[i - n]
<1>1. q \in Seq(Packet)
  BY DEF Queue
<1>2. PICK n \in Nat, l \in Nat : n = Len(q) /\ l = Len(ps) /\ n <= MaxQueue
  BY <1>1 DEF Queue
<1>3. PICK all : all = q \o ps
  OBVIOUS
<1>4. /\ all \in Seq(Packet) /\ Len(all) = n + l
      /\ \A i \in 1..(n + l) : all[i] = IF i <= n THEN q[i] ELSE ps[i - n]
  <2>1. /\ all \in Seq(Packet) /\ Len(all) = Len(q) + Len(ps)
        /\ \A i \in 1..(Len(q) + Len(ps)) :
             all[i] = IF i <= Len(q) THEN q[i] ELSE ps[i - Len(q)]
    BY <1>1, <1>3, ConcatProperties
  <2> QED BY <1>2, <2>1
<1>5. PICK m \in Nat : /\ m = (IF n + l < MaxQueue THEN n + l ELSE MaxQueue)
                       /\ n <= m /\ m <= n + l
  BY <1>2, LinkAssumption
<1>6. Sent(q, ps) = SubSeq(all, 1, m)
  BY <1>3, <1>4, <1>5 DEF Sent
<1>7. PICK r : r = SubSeq(all, 1, m)
  OBVIOUS
<1>8. r \in Seq(Packet) /\ Len(r) = m /\ \A i \in 1..m : r[i] = all[i]
  <2>1. \A i \in 1..m : all[i] \in Packet
    BY <1>4, <1>5
  <2>2. r \in Seq(Packet) /\ Len(r) = m
    BY <1>4, <1>5, <1>7, <2>1
  <2>3. \A i \in 1..m : r[i] = all[i]
    BY <1>4, <1>5, <1>7
  <2> QED BY <2>2, <2>3
<1>9. DOMAIN q = 1..n /\ DOMAIN r = 1..m
  BY <1>1, <1>2, <1>8
<1>10. \A i \in 1..n : r[i] = q[i]
  BY <1>4, <1>5, <1>8
<1>11. \A i \in (n + 1)..m : r[i] = ps[i - n]
  BY <1>4, <1>5, <1>8
<1>12. Sent(q, ps) = r /\ m <= n + Len(ps)
  BY <1>2, <1>5, <1>6, <1>7
<1> QED BY <1>5, <1>9, <1>10, <1>11, <1>12

LEMMA SentHas ==
  ASSUME NEW q \in Queue, NEW ps \in Seq(Packet), NEW m
  PROVE  /\ Has(q, m) => Has(Sent(q, ps), m)
         /\ Has(Sent(q, ps), m) => Has(q, m) \/ Has(ps, m)
<1>1. PICK r : r = Sent(q, ps)
  OBVIOUS
<1>2. PICK n \in Nat, k \in Nat :
        /\ n <= k /\ k <= n + Len(ps)
        /\ DOMAIN q = 1..n /\ DOMAIN r = 1..k
        /\ \A i \in 1..n : r[i] = q[i]
        /\ \A i \in (n + 1)..k : r[i] = ps[i - n]
  BY <1>1, SentIs
<1>3. ASSUME Has(q, m) PROVE Has(r, m)
  BY <1>2, <1>3 DEF Has
<1>4. ASSUME Has(r, m), ~Has(q, m) PROVE Has(ps, m)
  <2>1. PICK i \in 1..k : r[i].msg = m
    BY <1>2, <1>4 DEF Has
  <2>2. ~(i \in 1..n)
    BY <1>2, <1>4, <2>1 DEF Has
  <2>3. r[i] = ps[i - n] /\ i - n \in 1..Len(ps)
    BY <1>2, <2>1, <2>2
  <2> QED BY <2>1, <2>3 DEF Has
<1> QED BY <1>1, <1>3, <1>4

(* At most one of the packets sent counts; it is in the queue or dropped.  *)
LEMMA SentWeighs ==
  ASSUME NEW tc, NEW q \in Queue, NEW ps \in Seq(Packet), NEW p,
         \A i \in DOMAIN ps : Counts(tc, ps[i]) => ps[i] = p,
         \A i, j \in DOMAIN ps :
           Counts(tc, ps[i]) /\ Counts(tc, ps[j]) => i = j
  PROVE  /\ Weight(tc, Sent(q, ps)) <= Weight(tc, q) + 1
         /\ \/ Weight(tc, Sent(q, ps)) <= Weight(tc, q)
            \/ Counts(tc, p) /\ Has(Sent(q, ps), p.msg)
<1>1. PICK r : r = Sent(q, ps)
  OBVIOUS
<1>2. PICK n \in Nat, k \in Nat :
        /\ n <= k /\ k <= n + Len(ps)
        /\ DOMAIN q = 1..n /\ DOMAIN r = 1..k
        /\ \A i \in 1..n : r[i] = q[i]
        /\ \A i \in (n + 1)..k : r[i] = ps[i - n]
  BY <1>1, SentIs
<1>3. r \in Queue /\ Weight(tc, q) \in Nat /\ IsFiniteSet(Counted(tc, r))
  BY <1>1, SentGood, WeightNat DEF Queue
<1>4. \A j \in Counted(tc, r) : j \in 1..k /\ Counts(tc, r[j])
  BY <1>2 DEF Counted
<1>5. \A j \in Counted(tc, r) \ (1..n) :
        j - n \in DOMAIN ps /\ r[j] = ps[j - n] /\ Counts(tc, ps[j - n])
  <2> TAKE j \in Counted(tc, r) \ (1..n)
  <2>1. j \in (n + 1)..k /\ j - n \in 1..Len(ps)
    BY <1>2, <1>4
  <2> QED BY <1>2, <1>4, <2>1
<1>6. \A i, j \in Counted(tc, r) \ (1..n) : i = j
  <2> TAKE i, j \in Counted(tc, r) \ (1..n)
  <2>1. i - n = j - n /\ i \in Int /\ j \in Int
    BY <1>2, <1>4, <1>5
  <2> QED BY <2>1
<1>7. ASSUME NEW x, \A j \in Counted(tc, r) \ {x} : j \in 1..n
      PROVE  Cardinality(Counted(tc, r) \ {x}) <= Weight(tc, q)
  <2>1. PICK f : f = [i \in Counted(tc, r) \ {x} |-> i]
    OBVIOUS
  <2>2. /\ f \in [Counted(tc, r) \ {x} -> Counted(tc, q)]
        /\ \A i, j \in Counted(tc, r) \ {x} : f[i] = f[j] => i = j
    BY <1>2, <1>4, <1>7, <2>1 DEF Counted
  <2> QED BY <2>2, WeightLess
<1>8. CASE \A j \in Counted(tc, r) : j \in 1..n
  <2>1. Counted(tc, r) \ {0} = Counted(tc, r)
    BY <1>8
  <2>2. Weight(tc, r) <= Weight(tc, q) /\ Weight(tc, r) \in Nat
    BY <1>3, <1>7, <1>8, <2>1, WeightNat DEF Weight
  <2> QED BY <1>1, <1>3, <2>2
<1>9. ASSUME NEW x \in Counted(tc, r) \ (1..n)
      PROVE  /\ Weight(tc, r) <= Weight(tc, q) + 1
             /\ Counts(tc, p) /\ Has(r, p.msg)
  <2>1. \A j \in Counted(tc, r) \ {x} : j \in 1..n
    BY <1>6, <1>9
  <2>2. Cardinality(Counted(tc, r) \ {x}) <= Weight(tc, q)
    BY <1>7, <2>1
  <2>3. Cardinality(Counted(tc, r) \ {x}) = Weight(tc, r) - 1
    BY <1>3, <1>9, FS_RemoveElement DEF Weight
  <2>4. Weight(tc, r) \in Nat
    BY <1>3, WeightNat
  <2>5. Weight(tc, r) <= Weight(tc, q) + 1
    BY <1>3, <2>2, <2>3, <2>4
  <2>6. r[x] = p /\ Counts(tc, p)
    BY <1>5, <1>9
  <2>7. Has(r, p.msg)
    BY <1>2, <1>4, <1>9, <2>6 DEF Has
  <2> QED BY <2>5, <2>6, <2>7
<1> QED BY <1>1, <1>8, <1>9

-----------------------------------------------------------------------------
(* What the console does with a packet: it goes on by one function at most *)
(* and only with a packet that counts, and sends its own test if any.      *)
Follows(c, p, h) ==
  /\ h.con.tc = c.tc /\ (c.stop => h.con.stop)
  /\ h.con.state \in {c.state, c.state + 1}
  /\ h.con.state # c.state =>
       /\ c.tc = "L_1" => p # Data("VO") /\ c.state < 2
       /\ c.state = 0 => p.msg = "HELLO"
       /\ c.state = 1 => p.msg = "CONFIRM"
  /\ \/ h.con.num_retry = c.num_retry /\ h.con.reset = c.reset
     \/ /\ h.con.num_retry = c.num_retry + 1 /\ h.con.reset
        /\ c.state > 1 /\ (c.tc = "L_1" => p # Data("VO"))
  /\ \A i \in DOMAIN h.tx : h.tx[i].msg \in Tests => h.tx[i].msg = c.tc
  /\ Has(h.tx, "RESET") => h.con.num_retry = c.num_retry + 1

LEMMA ConsoleMoves ==
  ASSUME NEW n \in Nat, NEW c \in ConFields(n)
  PROVE  /\ Advance(c).tc = c.tc /\ Advance(c).state = c.state + 1
         /\ Advance(c).num_retry = c.num_retry
         /\ Advance(c).reset = c.reset /\ Advance(c).stop = c.stop
         /\ Quit(c).tc = c.tc /\ Quit(c).state = c.state
         /\ Quit(c).num_retry = c.num_retry /\ Quit(c).reset = c.reset
         /\ c.stop => Quit(c).stop
         /\ Reset(c).con.tc = c.tc /\ Reset(c).con.state = c.state
         /\ Reset(c).con.num_retry = c.num_retry + 1
         /\ Reset(c).con.reset /\ (c.stop => Reset(c).con.stop)
         /\ Greeted(c).tc = c.tc /\ Greeted(c).state = 0
         /\ Greeted(c).num_retry = c.num_retry
         /\ ~Greeted(c).reset /\ Greeted(c).stop = c.stop
<1>1. /\ Advance(c).tc = c.tc /\ Advance(c).state = c.state + 1
      /\ Advance(c).num_retry = c.num_retry
      /\ Advance(c).reset = c.reset /\ Advance(c).stop = c.stop
  BY DEF ConFields, Advance
<1>2. /\ Quit(c).tc = c.tc /\ Quit(c).state = c.state
      /\ Quit(c).num_retry = c.num_retry /\ Quit(c).reset = c.reset
      /\ c.stop => Quit(c).stop
  BY DEF ConFields, Quit
<1>3. PICK d, b : /\ d = Reset(c).con
                  /\ b = (c.stop \/ c.num_retry + 1 > ConsoleRetries)
                  /\ d = [c EXCEPT !.num_retry = c.num_retry + 1, !.reset = TRUE,
                            !.reset_rx = FALSE, !.stop = b]
  BY DEF Reset, Done
<1>4. /\ d.tc = c.tc /\ d.state = c.state /\ d.num_retry = c.num_retry + 1
      /\ d.reset /\ (c.stop => d.stop)
  BY <1>3 DEF ConFields
<1>5. /\ Greeted(c).tc = c.tc /\ Greeted(c).state = 0
      /\ Greeted(c).num_retry = c.num_retry
      /\ ~Greeted(c).reset /\ Greeted(c).stop = c.stop
  BY DEF ConFields, Greeted
<1> QED BY <1>1, <1>2, <1>3, <1>4, <1>5

(* The packets of a reset: a RESET or RESET_RESP, after a RESET_STOP or not. *)
LEMMA ResetPair ==
  ASSUME NEW m \in {"RESET", "RESET_RESP"},
         NEW s \in {<<Msg("RESET_STOP")>>, <<>>}
  PROVE  LET ps == s \o <<Msg(m)>> IN
         /\ ps \in Seq(Packet)
         /\ \A i \in DOMAIN ps : ps[i] \in {Msg("RESET_STOP"), Msg(m)}
         /\ \A i, j \in DOMAIN ps : ps[i] = Msg(m) /\ ps[j] = Msg(m) => i = j
<1>1. Msg("RESET_STOP") \in Packet /\ Msg(m) \in Packet
  BY ControlPackets DEF Messages
<1>2. Msg("RESET_STOP") # Msg(m)
  BY DEF Msg
<1>3. PICK a, b : a = Msg("RESET_STOP") /\ b = Msg(m)
  OBVIOUS
<1>4. PICK t, ps : t = <<b>> /\ ps = s \o t
  OBVIOUS
<1>5. /\ s \in Seq(Packet) /\ Len(s) \in {0, 1} /\ (Len(s) = 1 => s[1] = a)
      /\ t \in Seq(Packet) /\ Len(t) = 1 /\ t[1] = b
  <2>1. t \in Seq(Packet) /\ Len(t) = 1 /\ t[1] = b
    BY <1>1, <1>3, <1>4
  <2>2. CASE s = <<a>>
    <3>1. s \in Seq(Packet) /\ Len(s) = 1 /\ s[1] = a
      BY <1>1, <1>3, <2>2
    <3> QED BY <2>1, <3>1
  <2>3. CASE s = <<>>
    <3>1. s \in Seq(Packet) /\ Len(s) = 0
      BY <2>3
    <3> QED BY <2>1, <3>1
  <2> QED BY <1>3, <2>2, <2>3
<1>6. /\ ps \in Seq(Packet) /\ Len(ps) = Len(s) + Len(t)
      /\ \A i \in 1..(Len(s) + Len(t)) :
           ps[i] = IF i <= Len(s) THEN s[i] ELSE t[i - Len(s)]
  BY <1>4, <1>5, ConcatProperties
<1>7. DOMAIN ps = 1..(Len(s) + 1)
  BY <1>5, <1>6
<1>8. \A i \in DOMAIN ps : IF i <= Len(s) THEN ps[i] = a ELSE ps[i] = b /\ i = Len(s) + 1
  <2> SUFFICES ASSUME NEW i \in DOMAIN ps
               PROVE  IF i <= Len(s) THEN ps[i] = a ELSE ps[i] = b /\ i = Len(s) + 1
    OBVIOUS
  <2>1. CASE Len(s) = 0
    BY <1>5, <1>6, <1>7, <2>1
  <2>2. CASE Len(s) = 1
    BY <1>5, <1>6, <1>7, <2>2
  <2> QED BY <1>5, <2>1, <2>2
<1>9. \A i, j \in DOMAIN ps : ps[i] = b /\ ps[j] = b => i = j
  BY <1>2, <1>3, <1>8
<1> QED BY <1>3, <1>4, <1>6, <1>8, <1>9

LEMMA ResetSends ==
  ASSUME NEW c, NEW i \in DOMAIN Reset(c).tx
  PROVE  Reset(c).tx[i].msg \in {"RESET_STOP", "RESET_RESP", "RESET"}
<1>1. \A m : Msg(m).msg = m
  BY DEF Msg
<1>2. PICK s, m :
        /\ s = IF c.num_retry + 1 > ConsoleRetries THEN <<Msg("RESET_STOP")>> ELSE <<>>
        /\ m = IF c.reset_rx THEN "RESET_RESP" ELSE "RESET"
  OBVIOUS
<1>3. Reset(c).tx = s \o <<Msg(m)>>
  BY <1>2 DEF Reset, Done
<1>4. s \in {<<Msg("RESET_STOP")>>, <<>>} /\ m \in {"RESET", "RESET_RESP"}
  BY <1>2
<1>5. Reset(c).tx[i] \in {Msg("RESET_STOP"), Msg(m)}
  BY <1>3, <1>4, ResetPair
<1> QED BY <1>1, <1>4, <1>5

LEMMA CyclicRow == uapsd_console_state_tbl["L_1"][3].f = "cyclic"
<1>1. <<rx_vo_tx_vo_cyclic>> \in Seq(ConsoleFunction)
      /\ Len(<<rx_vo_tx_vo_cyclic>>) \in 1..6
  BY ConsoleFunctionsGood
<1>2. ConsoleRow(<<rx_vo_tx_vo_cyclic>>)[3] = rx_vo_tx_vo_cyclic
  BY <1>1, ConsoleRowGood
<1>3. uapsd_console_state_tbl["L_1"] = ConsoleRow(<<rx_vo_tx_vo_cyclic>>)
  BY DEF uapsd_console_state_tbl
<1>4. rx_vo_tx_vo_cyclic.f = "cyclic"
  BY DEF rx_vo_tx_vo_cyclic
<1> QED BY <1>2, <1>3, <1>4

LEMMA CallFollows ==
  ASSUME NEW n \in Nat, NEW c, ConGood(c, n), NEW p \in Packet,
         c.tc = "L_1" => c.state <= 2
  PROVE  Follows(c, p, Call(c, p))
<1> DEFINE row == uapsd_console_state_tbl[c.tc]
<1>1. /\ c \in ConFields(n) /\ c.tc \in Tests /\ c.state \in 0..9
      /\ c.num_retry \in Nat
  BY DEF ConGood, ConFields
<1>2. GoodConsoleRow(row)
  BY <1>1, ConsoleTableGood
<1>3. \A m : Msg(m).msg = m
  BY DEF Msg
<1>4. c.num_retry + 1 # c.num_retry /\ c.state + 1 # c.state
  BY <1>1
<1>5. CASE c.state >= Len(row)
  <2>1. Call(c, p) = Done(c, <<>>)
    BY <1>5 DEF Call
  <2> QED BY <2>1 DEF Follows, Done, Has
<1>6. CASE ~(c.state >= Len(row))
  <2>1. PICK k \in 2..9 : k = Len(row)
    BY <1>2 DEF GoodConsoleRow
  <2>2. c.state < Len(row) /\ c.state + 1 \in 1..k
    BY <1>1, <1>6, <2>1
  <2>3. PICK fn \in ConsoleFunction : fn = row[c.state + 1]
    BY <1>2, <2>1, <2>2 DEF GoodConsoleRow
  <2>4. /\ c.state = 0 => fn.f = "hello" /\ fn.expected = Msg("HELLO")
        /\ c.state = 1 => fn.f = "answer" /\ fn.expected = Msg("CONFIRM")
        /\ fn.f = "cyclic" => fn.expected = Data("VO")
        /\ c.tc = "L_1" /\ c.state = 2 => fn.f = "cyclic"
        /\ fn.f \in {"answer", "hello", "stop", "cyclic"}
    <3>1. rx_hello.f = "hello" /\ rx_hello.expected = Msg("HELLO")
      BY DEF rx_hello
    <3>2. c.state = 0 => fn = row[1]
      BY <2>3
    <3>3. c.state = 1 => fn = row[2]
      BY <2>3
    <3>4. c.state = 2 => fn = row[3]
      BY <2>3
    <3> QED BY <1>2, <2>3, <3>1, <3>2, <3>3, <3>4, CyclicRow
            DEF GoodConsoleRow, ConsoleFunction
  <2>5. \A i \in DOMAIN fn.tx : fn.tx[i].msg \in {"DEFAULT", "STOP"}
    <3>1. fn.tx \in Seq(Reply)
      BY <2>3 DEF ConsoleFunction
    <3>2. \A i \in DOMAIN fn.tx : fn.tx[i] \in Reply
      BY <3>1
    <3> QED BY <3>2 DEF Reply
  <2>6. /\ ~Has(fn.tx, "RESET")
        /\ \A i \in DOMAIN fn.tx : ~(fn.tx[i].msg \in Tests)
    BY <2>5 DEF Has, Tests
  <2>7. ~Has(<<>>, "RESET") /\ \A i \in DOMAIN <<>> : FALSE
    BY DEF Has
  <2>8. CASE fn.f \in {"hello", "answer"}
    <3>1. Call(c, p) = Answers(c, fn, p)
      BY <1>6, <2>3, <2>8 DEF Call
    <3>2. CASE p # fn.expected
      <4>1. Call(c, p) = Done(c, <<>>)
        BY <3>1, <3>2 DEF Answers
      <4> QED BY <4>1, <2>7 DEF Follows, Done
    <3>3. CASE p = fn.expected
      <4>1. PICK h : h = Call(c, p)
        OBVIOUS
      <4>2. /\ h.con = Advance(c)
            /\ h.tx = IF fn.f = "hello" THEN <<Msg(c.tc)>> ELSE fn.tx
        BY <3>1, <3>3, <4>1 DEF Answers, Done
      <4>3. /\ \A i \in DOMAIN h.tx : h.tx[i].msg \in Tests => h.tx[i].msg = c.tc
            /\ ~Has(h.tx, "RESET")
        <5>1. CASE fn.f = "hello"
          <6>1. h.tx = <<Msg(c.tc)>>
            BY <4>2, <5>1
          <6>2. \A i \in DOMAIN h.tx : h.tx[i].msg = c.tc
            BY <1>3, <6>1
          <6> QED BY <1>1, <6>2 DEF Has, Tests
        <5>2. CASE fn.f # "hello"
          BY <2>6, <4>2, <5>2
        <5> QED BY <5>1, <5>2
      <4>4. c.tc = "L_1" => p # Data("VO") /\ c.state < 2
        <5>1. c.tc = "L_1" => c.state # 2
          BY <2>4, <2>8
        <5>2. Data("VO").msg = "DEFAULT"
          BY DEF Data
        <5>3. c.tc = "L_1" => c.state \in {0, 1}
          BY <1>1, <5>1
        <5> QED BY <1>3, <2>4, <3>3, <5>2, <5>3
      <4>5. /\ c.state = 0 => p.msg = "HELLO"
            /\ c.state = 1 => p.msg = "CONFIRM"
        BY <1>3, <2>4, <3>3
      <4>6. Follows(c, p, h)
        BY <1>1, <4>2, <4>3, <4>4, <4>5, ConsoleMoves DEF Follows
      <4> QED BY <4>1, <4>6
    <3> QED BY <3>2, <3>3
  <2>9. CASE fn.f = "stop"
    <3>1. PICK h : h = Call(c, p)
      OBVIOUS
    <3>2. h = Stops(c, fn, p)
      BY <1>6, <2>3, <2>9, <3>1 DEF Call
    <3>3. h.con \in {Advance(c), Quit(Advance(c))} /\ h.tx = fn.tx
      BY <3>2 DEF Stops, Done
    <3>4. c.state > 1 /\ c.tc # "L_1"
      <4>1. c.state \notin {0, 1}
        BY <2>4, <2>9
      <4>2. c.tc = "L_1" => c.state # 2
        BY <2>4, <2>9
      <4> QED BY <1>1, <4>1, <4>2
    <3>5. Advance(c) \in ConFields(n)
      BY <2>2, AdvanceGood DEF ConGood
    <3>6. /\ h.con.tc = c.tc /\ h.con.state = c.state + 1
          /\ h.con.num_retry = c.num_retry /\ h.con.reset = c.reset
          /\ c.stop => h.con.stop
      <4>1. h.con.tc = Advance(c).tc /\ h.con.state = Advance(c).state
            /\ h.con.num_retry = Advance(c).num_retry
            /\ h.con.reset = Advance(c).reset
            /\ (Advance(c).stop => h.con.stop)
        BY <3>3, <3>5, ConsoleMoves
      <4> QED BY <1>1, <4>1, ConsoleMoves
    <3>7. Follows(c, p, h)
      BY <1>1, <2>6, <3>3, <3>4, <3>6 DEF Follows
    <3> QED BY <3>1, <3>7
  <2>10. CASE fn.f = "cyclic"
    <3>1. PICK h : h = Call(c, p)
      OBVIOUS
    <3>2. h = Cycle(c, fn, p)
      BY <1>6, <2>3, <2>10, <3>1 DEF Call
    <3>3. c.state > 1
      <4>1. c.state \notin {0, 1}
        BY <2>4, <2>10
      <4> QED BY <1>1, <4>1
    <3>4. CASE p = fn.expected
      <4>1. h = Done(c, fn.tx)
        BY <3>2, <3>4 DEF Cycle
      <4> QED BY <2>6, <3>1, <4>1 DEF Follows, Done
    <3>5. CASE p # fn.expected /\ p = Msg("STOP")
      <4>1. h.con = Quit(c) /\ h.tx = <<Msg("STOP")>>
        BY <3>2, <3>5 DEF Cycle, Done
      <4>2. \A i \in DOMAIN h.tx : h.tx[i].msg = "STOP"
        BY <1>3, <4>1
      <4>3. ~Has(h.tx, "RESET") /\ \A i \in DOMAIN h.tx : ~(h.tx[i].msg \in Tests)
        BY <4>2 DEF Has, Tests
      <4>4. Follows(c, p, h)
        BY <1>1, <1>4, <4>1, <4>3, ConsoleMoves DEF Follows
      <4> QED BY <3>1, <4>4
    <3>6. CASE p # fn.expected /\ p # Msg("STOP")
      <4>1. h = Reset(c) /\ p # Data("VO")
        BY <2>4, <2>10, <3>2, <3>6 DEF Cycle
      <4>2. \A i \in DOMAIN h.tx : ~(h.tx[i].msg \in Tests)
        BY <4>1, ResetSends DEF Tests
      <4>3. Follows(c, p, h)
        BY <1>1, <1>4, <3>3, <4>1, <4>2, ConsoleMoves DEF Follows
      <4> QED BY <3>1, <4>3
    <3> QED BY <3>4, <3>5, <3>6
  <2> QED BY <2>4, <2>8, <2>9, <2>10
<1> QED BY <1>5, <1>6

-----------------------------------------------------------------------------
(* The inductive invariant behind ConsoleFollows.                          *)

(* The station's packets that the console may advance on, and the          *)
(* functions the console has been through.                                 *)
SentByDut ==
  (IF dut.tx_state = 0 THEN 0 ELSE dut.tx_state - 1)
    + dut.tx_stop_cnt + dut.num_retry
Advanced(c) == IF c.state = 0 THEN 0 ELSE c.state - 1

(* Both sides run the same test once the station knows it.                 *)
TestInv ==
  /\ dut.rx_state > 0 \/ rx = "start" => dut.tc = con.tc
  /\ \A m \in Tests : Has(down, m) => m = con.tc
  /\ con.tc = "L_1" => con.state <= 2

(* No CONFIRM is answered before one was sent.                             *)
ConfirmInv == dut.tx_state <= 1 => con.state <= 1 /\ ~Has(up, "CONFIRM")

(* The console has asked for a reset if one is under way to the station.   *)
ResetInv ==
  /\ ~dut.reset_rx
  /\ con.reset \/ Has(down, "RESET") => con.num_retry > 0

(* The packets under way to a console that may still advance on them       *)
(* count.  A HELLO starts it over; only a console in reset, which has      *)
(* taken a packet for the reset, has advanced on nothing for it.  A        *)
(* RESET_STOP does not count but comes with a RESET or a lost packet that  *)
(* does.                                                                   *)
AheadOf(c, s, q) ==
  /\ Advanced(c) <= s
  /\ ~c.stop =>
       /\ Advanced(c) + Weight(c.tc, q) <= s
       /\ c.num_retry > 0 =>
            /\ Weight(c.tc, q) < s
            /\ ~c.reset => Advanced(c) + Weight(c.tc, q) < s
       /\ Has(q, "RESET_STOP") /\ c.num_retry = 0 =>
            Advanced(c) + Weight(c.tc, q) < s \/ Has(q, "RESET")

FollowInv ==
  con.tc # "M_U" =>
    TestInv /\ ConfirmInv /\ ResetInv /\ AheadOf(con, SentByDut, up)

LEMMA FollowNumbers ==
  ASSUME IInv
  PROVE  /\ SentByDut \in Nat /\ con.tc \in Tests
         /\ con.state \in 0..9 /\ con.num_retry \in Nat
         /\ Advanced(con) \in Nat /\ Weight(con.tc, up) \in Nat
         /\ dut \in Dut /\ dut.tx_state \in 0..10 /\ dut.rx_state \in 0..5
         /\ dut.tx_stop_cnt \in Nat /\ dut.num_retry \in Nat
<1>1. /\ dut \in Dut /\ dut.tx_state \in 0..10 /\ dut.rx_state \in 0..5
      /\ dut.tx_stop_cnt \in Nat /\ dut.num_retry \in Nat
  <2>1. dut \in Dut
    BY DEF IInv, StationInv, DutTypeOK
  <2> QED BY <2>1, DutAssumption, DutFields
<1>2. con.tc \in Tests /\ con.state \in 0..9 /\ con.num_retry \in Nat
  BY DEF IInv, ConsoleInv, ConGood, ConFields
<1>3. Weight(con.tc, up) \in Nat
  BY WeightNat DEF IInv, LinkInv
<1> QED BY <1>1, <1>2, <1>3 DEF SentByDut, Advanced

LEMMA StationFollows ==
  ASSUME IInv, IInv', FollowInv, con.tc # "M_U", UNCHANGED con,
         dut'.rx_state > 0 \/ rx' = "start" => dut'.tc = con.tc,
         ~dut'.reset_rx,
         \A m : Has(down', m) => Has(down, m),
         dut'.tx_state <= 1 =>
           dut.tx_state <= 1 /\ (Has(up', "CONFIRM") => Has(up, "CONFIRM")),
         SentByDut <= SentByDut',
         Weight(con.tc, up') + SentByDut <= Weight(con.tc, up) + SentByDut',
         Has(up', "RESET_STOP") /\ con.num_retry = 0 =>
           \/ Has(up', "RESET")
           \/ Weight(con.tc, up') + SentByDut < Weight(con.tc, up) + SentByDut'
           \/ Has(up, "RESET_STOP") /\ ~Has(up, "RESET")
  PROVE  FollowInv'
<1>1. /\ SentByDut \in Nat /\ con.num_retry \in Nat /\ Advanced(con) \in Nat
      /\ Weight(con.tc, up) \in Nat
  BY FollowNumbers
<1>2. SentByDut' \in Nat /\ Weight(con.tc, up') \in Nat
  <2>1. SentByDut' \in Nat
    <3>1. dut' \in Dut /\ dut'.tx_state \in 0..10 /\ dut'.tx_stop_cnt \in Nat
          /\ dut'.num_retry \in Nat
      <4>1. dut' \in Dut
        BY DEF IInv, StationInv, DutTypeOK
      <4> QED BY <4>1, DutAssumption, DutFields
    <3> QED BY <3>1 DEF SentByDut
  <2>2. up' \in Queue
    BY DEF IInv, LinkInv
  <2> QED BY <2>1, <2>2, WeightNat
<1>3. TestInv' /\ ConfirmInv' /\ ResetInv'
  BY DEF FollowInv, TestInv, ConfirmInv, ResetInv
<1>4. AheadOf(con, SentByDut, up)
  BY DEF FollowInv
<1>5. AheadOf(con, SentByDut', up')
  <2>1. PICK a \in Nat, s \in Nat, t \in Nat, w \in Nat, v \in Nat :
          /\ a = Advanced(con) /\ s = SentByDut /\ t = SentByDut'
          /\ w = Weight(con.tc, up) /\ v = Weight(con.tc, up')
    BY <1>1, <1>2
  <2>2. a <= s /\ s <= t /\ v + s <= w + t
    BY <1>4, <2>1 DEF AheadOf
  <2>3. ASSUME ~con.stop
        PROVE  /\ a + v <= t
               /\ con.num_retry > 0 =>
                    v < t /\ (~con.reset => a + v < t)
               /\ Has(up', "RESET_STOP") /\ con.num_retry = 0 =>
                    a + v < t \/ Has(up', "RESET")
    <3>1. /\ a + w <= s
          /\ con.num_retry > 0 => w < s /\ (~con.reset => a + w < s)
          /\ Has(up, "RESET_STOP") /\ con.num_retry = 0 =>
               a + w < s \/ Has(up, "RESET")
      BY <1>4, <2>1, <2>3 DEF AheadOf
    <3>2. Has(up', "RESET_STOP") /\ con.num_retry = 0 =>
            Has(up', "RESET") \/ v + s < w + t \/ a + w < s
      BY <2>1, <3>1
    <3> QED BY <2>2, <3>1, <3>2
  <2> QED BY <2>1, <2>2, <2>3 DEF AheadOf
<1> QED BY <1>3, <1>5 DEF FollowInv

LEMMA OneSent ==
  ASSUME IInv, NEW p \in Packet, p.msg # "RESET_STOP", up' = Sent(up, <<p>>)
  PROVE  /\ Weight(con.tc, up') <= Weight(con.tc, up) + 1
         /\ ~Counts(con.tc, p) => Weight(con.tc, up') <= Weight(con.tc, up)
         /\ Has(up', "CONFIRM") => Has(up, "CONFIRM") \/ p.msg = "CONFIRM"
         /\ Has(up', "RESET_STOP") =>
              Has(up', "RESET") \/ (Has(up, "RESET_STOP") /\ ~Has(up, "RESET"))
<1>1. PICK ps : ps = <<p>>
  OBVIOUS
<1>2. ps \in Seq(Packet) /\ DOMAIN ps = {1} /\ ps[1] = p
  BY <1>1
<1>3. up \in Queue
  BY DEF IInv, LinkInv
<1>4. /\ Weight(con.tc, Sent(up, ps)) <= Weight(con.tc, up) + 1
      /\ \/ Weight(con.tc, Sent(up, ps)) <= Weight(con.tc, up)
         \/ Counts(con.tc, p) /\ Has(Sent(up, ps), p.msg)
  BY <1>2, <1>3, SentWeighs
<1>5. \A m : /\ Has(up, m) => Has(up', m)
             /\ Has(up', m) => Has(up, m) \/ Has(ps, m)
  BY <1>1, <1>2, <1>3, SentHas
<1>6. \A m : Has(ps, m) => m = p.msg
  BY <1>2 DEF Has
<1> QED BY <1>1, <1>4, <1>5, <1>6

(* Pairs of packets are sent in M_U only, and the cyclic data in L_1 only. *)
LEMMA TxRowFunctions ==
  ASSUME NEW tc \in Tests, tc # "M_U",
         NEW i \in DOMAIN sta_uapsd_tx_tbl[tc]
  PROVE  LET g == sta_uapsd_tx_tbl[tc][i]
         IN  g.f # "twice" /\ (g.f = "cyclic" => tc = "L_1" /\ g.ac = "VO")
<1> DEFINE Plain(g) == g.f \notin {"twice", "cyclic"}
           Start == [f |-> "start", ac |-> "BE"]
           Confirm == [f |-> "confirm", ac |-> "BE"]
           Stop == [f |-> "stop", ac |-> "BE"]
<1>1. /\ Plain(BE) /\ Plain(BK) /\ Plain(VI) /\ Plain(VO)
      /\ Plain(Start) /\ Plain(Confirm) /\ Plain(Stop)
  BY DEF BE, BK, VI, VO, tx_data
<1>2. tx_cyclic("VO").f = "cyclic" /\ tx_cyclic("VO").ac = "VO"
  BY DEF tx_cyclic
<1>3. ASSUME NEW G, NEW data \in Seq(G), NEW k \in DOMAIN TxRow(data)
      PROVE  TxRow(data)[k] \in G \cup {Start, Confirm, Stop}
  <2>1. PICK H : H = G \cup {Start, Confirm, Stop}
    OBVIOUS
  <2>2. PICK a, b, d : a = <<Start, Confirm>> /\ b = <<Stop>> /\ d = data
    OBVIOUS
  <2>3. a \in Seq(H) /\ b \in Seq(H) /\ d \in Seq(H)
    BY <2>1, <2>2
  <2>4. a \o d \in Seq(H)
    BY <2>3, ConcatProperties
  <2>5. (a \o d) \o b \in Seq(H)
    BY <2>3, <2>4, ConcatProperties
  <2>6. TxRow(data) \in Seq(H)
    BY <2>2, <2>5 DEF TxRow
  <2> QED BY <2>1, <2>6
<1> HIDE DEF Start, Confirm, Stop
<1>4. CASE tc = "L_1"
  <2>1. PICK c : c = tx_cyclic("VO")
    OBVIOUS
  <2>2. <<c>> \in Seq({c})
    OBVIOUS
  <2>3. sta_uapsd_tx_tbl[tc] = TxRow(<<c>>)
    BY <1>4, <2>1 DEF sta_uapsd_tx_tbl
  <2>4. sta_uapsd_tx_tbl[tc][i] \in {c} \cup {Start, Confirm, Stop}
    BY <1>3, <2>2, <2>3
  <2> QED BY <1>1, <1>2, <1>4, <2>1, <2>4
<1>5. CASE tc # "L_1"
  <2>1. PICK P : P = {BE, BK, VI, VO}
    OBVIOUS
  <2>2. BE \in P /\ BK \in P /\ VI \in P /\ VO \in P
    BY <2>1
  <2>3. /\ <<VO, VO>> \in Seq(P) /\ <<VO, VI, BE, BK>> \in Seq(P)
        /\ <<VI>> \in Seq(P) /\ <<VI, VI, VI, VI>> \in Seq(P)
        /\ <<VO>> \in Seq(P) /\ <<VI, VO, BE, BE>> \in Seq(P)
        /\ <<VI, VO, BE, BE, BE>> \in Seq(P) /\ <<VI, VI, VI>> \in Seq(P)
        /\ <<VI, BE, VI>> \in Seq(P) /\ <<VI, BE, BE, BE, VO, VO>> \in Seq(P)
        /\ <<BE>> \in Seq(P)
    BY <2>2
  <2>4. sta_uapsd_tx_tbl[tc] \in
          {TxRow(<<VO, VO>>), TxRow(<<VO, VI, BE, BK>>), TxRow(<<VI>>),
           TxRow(<<VI, VI, VI, VI>>), TxRow(<<VO>>), TxRow(<<VI, VO, BE, BE>>),
           TxRow(<<VI, VO, BE, BE, BE>>), TxRow(<<VI, VI, VI>>),
           TxRow(<<VI, BE, VI>>), TxRow(<<VI, BE, BE, BE, VO, VO>>),
           TxRow(<<BE>>)}
    BY <1>5 DEF Tests, sta_uapsd_tx_tbl
  <2>5. PICK data \in Seq(P) : sta_uapsd_tx_tbl[tc] = TxRow(data)
    BY <2>3, <2>4
  <2>6. sta_uapsd_tx_tbl[tc][i] \in P \cup {Start, Confirm, Stop}
    BY <1>3, <2>5
  <2> QED BY <1>1, <2>1, <2>6
<1> QED BY <1>4, <1>5

(* Steps that leave the packets and what is counted alone.                 *)
SameCounts ==
  /\ dut'.tc = dut.tc /\ dut'.tx_state = dut.tx_state
  /\ dut'.rx_state = dut.rx_state /\ dut'.tx_stop_cnt = dut.tx_stop_cnt
  /\ dut'.num_retry = dut.num_retry /\ dut'.reset_rx = dut.reset_rx

LEMMA QuietFollows ==
  ASSUME IInv, IInv', FollowInv, con.tc # "M_U", UNCHANGED <<con, up, down>>,
         SameCounts, rx' = "start" => rx = "start"
  PROVE  FollowInv'
<1>1. SentByDut' = SentByDut /\ SentByDut \in Nat
  BY FollowNumbers DEF SameCounts, SentByDut
<1>2. TestInv /\ ResetInv
  BY DEF FollowInv
<1> QED BY <1>1, <1>2 DEF FollowInv, SameCounts, TestInv, ConfirmInv, ResetInv,
                          AheadOf

(* What the sender runs once it has got the test.                          *)
LEMMA SenderPast ==
  ASSUME IInv, FollowInv, con.tc # "M_U", tx.pc = "act", tx.f.f # "start"
  PROVE  /\ dut.tx_state >= 1
         /\ tx.f.f # "twice"
         /\ tx.f.f = "cyclic" => ~Counts(con.tc, Data(tx.f.ac))
<1>1. /\ dut.tx_state \in 0..10 /\ dut.rx_state \in 0..5 /\ con.tc \in Tests
  BY FollowNumbers
<1>2. /\ dut.tx_state # 0 /\ dut.rx_state > 0
      /\ dut.tx_state < Len(StationRow) /\ tx.f = StationRow[dut.tx_state + 1]
  BY <1>1 DEF IInv, StationInv, RowsInv
<1>3. StationRow = sta_uapsd_tx_tbl[con.tc]
  BY <1>2 DEF FollowInv, TestInv, StationRow
<1>4. tx.f \in {StationRow[i] : i \in DOMAIN StationRow}
  <2>1. StationRow \in Seq(TxFunctions)
    BY <1>1, <1>3, TxTableGood DEF GoodTxRow
  <2> QED BY <1>1, <1>2, <2>1
<1>5. tx.f.f # "twice" /\ (tx.f.f = "cyclic" => con.tc = "L_1" /\ tx.f.ac = "VO")
  BY <1>1, <1>3, <1>4, TxRowFunctions
<1> QED BY <1>1, <1>2, <1>5 DEF Counts

(* The sender's function has sent, or counts, one packet more.             *)
LEMMA SenderCounts ==
  ASSUME IInv, NEW k \in Nat, dut.tx_state >= 1,
         \/ dut' = [dut EXCEPT !.tx_state = @ + k]
         \/ dut' = [dut EXCEPT !.tx_stop_cnt = @ + k]
  PROVE  /\ SentByDut' = SentByDut + k
         /\ dut'.tx_state <= 1 => dut.tx_state <= 1
         /\ dut' = [dut EXCEPT !.tx_state = @ + k] /\ k = 1 => dut'.tx_state > 1
         /\ dut'.tc = dut.tc /\ dut'.rx_state = dut.rx_state
         /\ dut'.reset_rx = dut.reset_rx
<1>1. /\ dut \in Dut /\ dut.tx_state \in 1..10 /\ dut.tx_stop_cnt \in Nat
      /\ dut.num_retry \in Nat
  BY FollowNumbers
<1>2. CASE dut' = [dut EXCEPT !.tx_state = @ + k]
  <2>1. /\ dut'.tx_state = dut.tx_state + k /\ dut'.tx_stop_cnt = dut.tx_stop_cnt
        /\ dut'.num_retry = dut.num_retry /\ dut'.tc = dut.tc
        /\ dut'.rx_state = dut.rx_state /\ dut'.reset_rx = dut.reset_rx
    BY <1>1, <1>2 DEF Dut
  <2> QED BY <1>1, <2>1 DEF SentByDut
<1>3. CASE dut' = [dut EXCEPT !.tx_stop_cnt = @ + k] /\ ~(k = 1 /\ dut' = [dut EXCEPT !.tx_state = @ + k])
  <2>1. /\ dut'.tx_state = dut.tx_state /\ dut'.tx_stop_cnt = dut.tx_stop_cnt + k
        /\ dut'.num_retry = dut.num_retry /\ dut'.tc = dut.tc
        /\ dut'.rx_state = dut.rx_state /\ dut'.reset_rx = dut.reset_rx
    BY <1>1, <1>3 DEF Dut
  <2> QED BY <1>1, <1>3, <2>1 DEF SentByDut
<1> QED BY <1>2, <1>3

LEMMA TxFollows ==
  ASSUME IInv, IInv', FollowInv, con.tc # "M_U", UNCHANGED con, TxStep
  PROVE  FollowInv'
<1>1. /\ dut \in Dut /\ dut.tx_state \in 0..10 /\ SentByDut \in Nat
      /\ dut.tx_stop_cnt \in Nat /\ dut.num_retry \in Nat
      /\ Weight(con.tc, up) \in Nat /\ tx \in Thread /\ tx.f.ac \in Categories
  BY FollowNumbers DEF IInv, StationInv, DutTypeOK, Thread, TxFunctions
<1>2. TestInv /\ ConfirmInv /\ ResetInv
  BY DEF FollowInv
<1>3. /\ \A m : Msg(m).msg = m
      /\ \A m \in Messages : Msg(m) \in Packet
      /\ \A ac : Data(ac).msg = "DEFAULT"
      /\ \A ac \in Categories : Data(ac) \in Packet
  BY ControlPackets, PacketsGood DEF Msg, Data, Messages
<1>4. Weight(con.tc, up') \in Nat
  BY WeightNat DEF IInv, LinkInv
<1>5. CASE TxLoop \/ TxSignal \/ SendFails \/ TooManyHellos \/ TxCount
  <2>1. SameCounts
    BY <1>1, <1>5 DEF SameCounts, Dut, TxLoop, TxSignal, SendFails, TxOnceFails,
                      TxManyFails, TooManyHellos, TxCount
  <2>2. UNCHANGED <<con, up, down>> /\ (rx' = "start" => rx = "start")
    BY <1>5 DEF TxLoop, TxSignal, SendFails, TxOnceFails, TxManyFails,
                TooManyHellos, TxCount
  <2> QED BY <2>1, <2>2, QuietFollows
<1>6. CASE TestReceived
  <2>1. /\ dut'.tx_state = dut.tx_state + 1 /\ dut'.tx_stop_cnt = dut.tx_stop_cnt
        /\ dut'.num_retry = dut.num_retry /\ dut'.tc = dut.tc
        /\ dut'.rx_state = dut.rx_state /\ dut'.reset_rx = dut.reset_rx
        /\ UNCHANGED <<rx, up, down>>
    BY <1>1, <1>6 DEF TestReceived, Dut
  <2>2. SentByDut <= SentByDut' /\ SentByDut' \in Nat
    BY <1>1, <2>1 DEF SentByDut
  <2>3. dut'.tx_state <= 1 => dut.tx_state <= 1
    BY <1>1, <2>1
  <2> QED BY <1>1, <1>2, <2>1, <2>2, <2>3, StationFollows DEF TestInv, ResetInv
<1>7. CASE TxHello
  <2>1. /\ SameCounts /\ UNCHANGED <<rx, down>>
        /\ up' = Sent(up, <<Msg("HELLO")>>)
    BY <1>1, <1>7 DEF TxHello, Dut, SameCounts
  <2>2. SentByDut' = SentByDut
    BY <2>1 DEF SentByDut, SameCounts
  <2>3. Msg("HELLO") \in Packet /\ ~Counts(con.tc, Msg("HELLO"))
    BY <1>3 DEF Counts, Messages
  <2>4. /\ Weight(con.tc, up') <= Weight(con.tc, up)
        /\ Has(up', "CONFIRM") => Has(up, "CONFIRM")
        /\ Has(up', "RESET_STOP") =>
             Has(up', "RESET") \/ (Has(up, "RESET_STOP") /\ ~Has(up, "RESET"))
    BY <1>3, <2>1, <2>3, OneSent
  <2> QED BY <1>1, <1>2, <1>4, <2>1, <2>2, <2>4, StationFollows
          DEF TestInv, ResetInv, SameCounts
<1>8. CASE TxOnce
  <2>1. PICK p \in {Data(tx.f.ac), Msg("CONFIRM")} :
          up' = Sent(up, <<p>>)
    BY <1>8 DEF TxOnce
  <2>2. dut' = [dut EXCEPT !.tx_state = @ + 1] /\ UNCHANGED <<rx, down>>
    BY <1>8 DEF TxOnce
  <2>3. dut.tx_state >= 1
    BY <1>8, SenderPast DEF TxOnce, Runs
  <2>4. /\ SentByDut' = SentByDut + 1 /\ dut'.tx_state > 1
        /\ dut'.tc = dut.tc /\ dut'.rx_state = dut.rx_state
        /\ dut'.reset_rx = dut.reset_rx
    BY <2>2, <2>3, SenderCounts
  <2>5. p \in Packet /\ p.msg # "RESET_STOP"
    BY <1>1, <1>3, <2>1 DEF Messages
  <2>6. /\ Weight(con.tc, up') <= Weight(con.tc, up) + 1
        /\ Has(up', "RESET_STOP") =>
             Has(up', "RESET") \/ (Has(up, "RESET_STOP") /\ ~Has(up, "RESET"))
    BY <2>1, <2>5, OneSent
  <2>7. ~(dut'.tx_state <= 1)
    <3>1. dut'.tx_state \in 0..10
      BY DutFields DEF IInv, StationInv, DutTypeOK
    <3> QED BY <2>4, <3>1
  <2> QED BY <1>1, <1>2, <1>4, <2>2, <2>4, <2>6, <2>7, StationFollows
          DEF TestInv, ResetInv
<1>9. CASE TxMany
  <2>1. /\ up' = Sent(up, <<Data(tx.f.ac)>>) /\ UNCHANGED <<dut, rx, down>>
        /\ tx.pc = "act" /\ tx.f.f \in {"twice", "cyclic"}
    BY <1>9 DEF TxMany, Runs
  <2>2. ~Counts(con.tc, Data(tx.f.ac))
    BY <2>1, SenderPast
  <2>3. SentByDut' = SentByDut
    BY <2>1 DEF SentByDut
  <2>4. /\ Weight(con.tc, up') <= Weight(con.tc, up)
        /\ Has(up', "CONFIRM") => Has(up, "CONFIRM")
        /\ Has(up', "RESET_STOP") =>
             Has(up', "RESET") \/ (Has(up, "RESET_STOP") /\ ~Has(up, "RESET"))
    BY <1>1, <1>3, <2>1, <2>2, OneSent
  <2> QED BY <1>1, <1>2, <1>4, <2>1, <2>3, <2>4, StationFollows
          DEF TestInv, ResetInv
<1>10. CASE TxManyDone
  <2>1. /\ tx.pc = "act" /\ tx.f.f \in {"twice", "cyclic"} /\ UNCHANGED <<rx, up, down>>
        /\ dut' \in {dut, [dut EXCEPT !.tx_state = @ + 1]}
    BY <1>10 DEF TxManyDone, Runs
  <2>2. CASE dut' = dut
    BY <2>1, <2>2, QuietFollows DEF SameCounts
  <2>3. CASE dut' = [dut EXCEPT !.tx_state = @ + 1]
    <3>1. dut.tx_state >= 1
      BY <2>1, SenderPast
    <3>2. /\ SentByDut' = SentByDut + 1 /\ (dut'.tx_state <= 1 => dut.tx_state <= 1)
          /\ dut'.tc = dut.tc /\ dut'.rx_state = dut.rx_state
          /\ dut'.reset_rx = dut.reset_rx
      BY <2>3, <3>1, SenderCounts
    <3> QED BY <1>1, <1>2, <2>1, <3>2, StationFollows DEF TestInv, ResetInv
  <2> QED BY <2>1, <2>2, <2>3
<1>11. CASE TxStop
  <2>1. /\ dut' = [dut EXCEPT !.tx_stop_cnt = @ + 1] /\ UNCHANGED <<rx, down>>
        /\ up' = Sent(up, <<Msg("STOP")>>) \/ up' = up
        /\ dut.tx_state >= 1
    BY <1>11, SenderPast DEF TxStop, Runs
  <2>2. /\ SentByDut' = SentByDut + 1 /\ (dut'.tx_state <= 1 => dut.tx_state <= 1)
        /\ dut'.tc = dut.tc /\ dut'.rx_state = dut.rx_state
        /\ dut'.reset_rx = dut.reset_rx
    BY <2>1, SenderCounts
  <2>3. CASE up' = up
    BY <1>1, <1>2, <2>1, <2>2, <2>3, StationFollows DEF TestInv, ResetInv
  <2>4. CASE up' = Sent(up, <<Msg("STOP")>>)
    <3>1. Msg("STOP") \in Packet
      BY <1>3 DEF Messages
    <3>2. /\ Weight(con.tc, up') <= Weight(con.tc, up) + 1
          /\ Has(up', "CONFIRM") => Has(up, "CONFIRM")
          /\ Has(up', "RESET_STOP") =>
               Has(up', "RESET") \/ (Has(up, "RESET_STOP") /\ ~Has(up, "RESET"))
      BY <1>3, <2>4, <3>1, OneSent
    <3> QED BY <1>1, <1>2, <1>4, <2>1, <2>2, <3>2, StationFollows
            DEF TestInv, ResetInv
  <2> QED BY <2>1, <2>3, <2>4
<1> QED BY <1>5, <1>6, <1>7, <1>8, <1>9, <1>10, <1>11 DEF TxStep

(* The receiver's steps.                                                   *)
LEMMA DutResetFollows ==
  ASSUME IInv, IInv', FollowInv, con.tc # "M_U", UNCHANGED con,
         NEW b \in BOOLEAN, DutReset(b), b => con.num_retry > 0,
         \A m : Has(down', m) => Has(down, m)
  PROVE  FollowInv'
<1>1. /\ dut \in Dut /\ dut.tx_state \in 0..10 /\ SentByDut \in Nat
      /\ dut.tx_stop_cnt \in Nat /\ dut.num_retry \in Nat
      /\ Weight(con.tc, up) \in Nat /\ con.num_retry \in Nat
  BY FollowNumbers
<1>2. TestInv /\ ConfirmInv /\ ResetInv
  BY DEF FollowInv
<1>3. Weight(con.tc, up') \in Nat
  BY WeightNat DEF IInv, LinkInv
<1>4. PICK n, w : n = dut.num_retry + 1 /\ w = (dut.stop \/ n > MAX_RETRY)
  OBVIOUS
<1>5. /\ dut' = [dut EXCEPT !.num_retry = n, !.reset_rx = FALSE, !.stop = w]
      /\ up' = Sent(up, ResetPackets(n, b)) /\ rx' = "loop"
  BY <1>1, <1>4 DEF DutReset, Dut
<1>6. /\ dut'.tx_state = dut.tx_state /\ dut'.tx_stop_cnt = dut.tx_stop_cnt
      /\ dut'.num_retry = n /\ dut'.tc = dut.tc
      /\ dut'.rx_state = dut.rx_state /\ ~dut'.reset_rx
  BY <1>1, <1>5 DEF Dut
<1>7. SentByDut' = SentByDut + 1
  BY <1>1, <1>4, <1>6 DEF SentByDut
<1>8. PICK s, m : /\ s = IF n > MAX_RETRY THEN <<Msg("RESET_STOP")>> ELSE <<>>
                  /\ m = IF b THEN "RESET_RESP" ELSE "RESET"
  OBVIOUS
<1>0. s \in {<<Msg("RESET_STOP")>>, <<>>} /\ m \in {"RESET", "RESET_RESP"}
  BY <1>8
<1>9. PICK ps : ps = s \o <<Msg(m)>>
  OBVIOUS
<1>10. up' = Sent(up, ps)
  BY <1>5, <1>8, <1>9 DEF ResetPackets
<1>11. /\ ps \in Seq(Packet)
       /\ \A i \in DOMAIN ps : ps[i] \in {Msg("RESET_STOP"), Msg(m)}
       /\ \A i, j \in DOMAIN ps : ps[i] = Msg(m) /\ ps[j] = Msg(m) => i = j
  BY <1>0, <1>9, ResetPair
<1>12. Msg(m).msg = m /\ Msg("RESET_STOP").msg = "RESET_STOP"
  BY DEF Msg
<1>13. \A i \in DOMAIN ps : Counts(con.tc, ps[i]) => ps[i] = Msg(m)
  BY <1>11, <1>12 DEF Counts
<1>14. \A i, j \in DOMAIN ps :
         Counts(con.tc, ps[i]) /\ Counts(con.tc, ps[j]) => i = j
  BY <1>11, <1>13
<1>15. up \in Queue
  BY DEF IInv, LinkInv
<1>16. /\ Weight(con.tc, up') <= Weight(con.tc, up) + 1
       /\ Weight(con.tc, up') <= Weight(con.tc, up) \/ Has(up', m)
  <2>1. PICK p : p = Msg(m)
    OBVIOUS
  <2> QED BY <1>10, <1>11, <1>12, <1>13, <1>14, <1>15, <2>1, SentWeighs
<1>17. Has(up', "CONFIRM") => Has(up, "CONFIRM")
  <2>1. ~Has(ps, "CONFIRM")
    BY <1>0, <1>11, <1>12 DEF Has
  <2> QED BY <1>10, <1>11, <1>15, <2>1, SentHas
<1>18. con.num_retry = 0 =>
         Has(up', "RESET") \/ Weight(con.tc, up') <= Weight(con.tc, up)
  BY <1>8, <1>16
<1>19. con.num_retry = 0 =>
         \/ Has(up', "RESET")
         \/ Weight(con.tc, up') + SentByDut < Weight(con.tc, up) + SentByDut'
  BY <1>1, <1>3, <1>7, <1>18
<1> QED BY <1>1, <1>2, <1>3, <1>5, <1>6, <1>7, <1>16, <1>17, <1>19,
           StationFollows DEF TestInv

LEMMA RxPacketFollows ==
  ASSUME IInv, IInv', FollowInv, con.tc # "M_U", UNCHANGED con, RxPacket
  PROVE  FollowInv'
<1>1. /\ dut \in Dut /\ dut.tx_state \in 0..10 /\ SentByDut \in Nat
      /\ Weight(con.tc, up) \in Nat /\ con.num_retry \in Nat
      /\ dut.rx_state \in 0..5 /\ down \in Queue
  BY FollowNumbers DEF IInv, LinkInv
<1>2. TestInv /\ ConfirmInv /\ ResetInv
  BY DEF FollowInv
<1>3. PICK p : p = Head(down)
  OBVIOUS
<1>4. /\ rx = "recv" /\ down # <<>> /\ down' = Tail(down)
      /\ \/ p.msg = "RESET" /\ DutReset(TRUE)
         \/ RxStart(p) \/ RxData(p) \/ RxStop(p)
  BY <1>3 DEF RxPacket
<1>5. \A m : Has(down', m) => Has(down, m)
  BY <1>1, <1>4, TailWeighs
<1>6. Has(down, p.msg)
  <2>1. 1 \in DOMAIN down /\ down[1] = p
    BY <1>1, <1>3, <1>4 DEF Queue
  <2> QED BY <2>1 DEF Has
<1>7. ASSUME dut'.tc = dut.tc \/ (dut'.tc = con.tc),
             dut'.rx_state = dut.rx_state \/ (dut.rx_state > 0 /\ dut'.tc = dut.tc),
             dut'.rx_state > 0 => dut'.tc = dut.tc \/ dut'.tc = con.tc,
             rx' = "start" => dut'.tc = con.tc,
             dut'.tx_state = dut.tx_state, dut'.tx_stop_cnt = dut.tx_stop_cnt,
             dut'.num_retry = dut.num_retry, dut'.reset_rx = dut.reset_rx,
             up' = up
      PROVE  FollowInv'
  <2>1. SentByDut' = SentByDut
    BY <1>7 DEF SentByDut
  <2>2. dut'.rx_state > 0 \/ rx' = "start" => dut'.tc = con.tc
    BY <1>2, <1>7 DEF TestInv
  <2> QED BY <1>1, <1>2, <1>5, <1>7, <2>1, <2>2, StationFollows
          DEF ResetInv, ConfirmInv
<1>8. CASE p.msg = "RESET" /\ DutReset(TRUE)
  <2>1. con.num_retry > 0
    BY <1>2, <1>6, <1>8 DEF ResetInv
  <2> QED BY <1>5, <1>8, <2>1, DutResetFollows
<1>9. CASE RxStart(p)
  <2>1. CASE p.msg \in Tests /\ dut' = [dut EXCEPT !.tc = p.msg]
    <3>1. p.msg = con.tc
      BY <1>2, <1>6, <2>1 DEF TestInv
    <3>2. /\ dut'.tc = con.tc /\ dut'.rx_state = dut.rx_state
          /\ dut'.tx_state = dut.tx_state /\ dut'.tx_stop_cnt = dut.tx_stop_cnt
          /\ dut'.num_retry = dut.num_retry /\ dut'.reset_rx = dut.reset_rx
      BY <1>1, <2>1, <3>1 DEF Dut
    <3> QED BY <1>7, <1>9, <3>2 DEF RxStart
  <2>2. CASE rx' = "loop" /\ UNCHANGED <<dut, up>>
    BY <1>7, <2>2
  <2> QED BY <1>9, <2>1, <2>2 DEF RxStart
<1>10. CASE RxData(p)
  <2>1. CASE p.msg = "DEFAULT"
    <3>1. /\ dut' = [dut EXCEPT !.rx_state = @ + 1] /\ rx' = "loop" /\ up' = up
      BY <1>10, <2>1 DEF RxData
    <3>2. /\ dut'.tc = dut.tc
          /\ dut'.tx_state = dut.tx_state /\ dut'.tx_stop_cnt = dut.tx_stop_cnt
          /\ dut'.num_retry = dut.num_retry /\ dut'.reset_rx = dut.reset_rx
      BY <1>1, <3>1 DEF Dut
    <3>3. dut.rx_state > 0
      <4>1. StationInv
        BY DEF IInv
      <4> QED BY <1>1, <1>10, <4>1, RxFunctionGood DEF RxData, StationInv
    <3> QED BY <1>7, <3>1, <3>2, <3>3
  <2>2. CASE DutReset(dut.reset_rx)
    <3>1. dut.reset_rx = FALSE
      BY <1>1, <1>2, DutFields DEF ResetInv
    <3> QED BY <1>5, <2>2, <3>1, DutResetFollows
  <2> QED BY <1>10, <2>1, <2>2 DEF RxData
<1>11. CASE RxStop(p)
  <2>1. rx' \in {"lock", "loop"} /\ UNCHANGED <<dut, up>>
    BY <1>11 DEF RxStop
  <2> QED BY <1>7, <2>1
<1> QED BY <1>4, <1>8, <1>9, <1>10, <1>11

LEMMA RxFollows ==
  ASSUME IInv, IInv', FollowInv, con.tc # "M_U", UNCHANGED con,
         RxStep \/ RxSpuriousWakeup \/ StopStream
  PROVE  FollowInv'
<1>1. dut \in Dut /\ dut.rx_state \in 0..5
  BY FollowNumbers
<1>2. CASE RxLoop \/ RxTimeout \/ RxWait \/ RxWoken \/ RxJoin \/ RxSpuriousWakeup
           \/ StopStream
  <2>1. SameCounts
    BY <1>1, <1>2 DEF SameCounts, Dut, RxLoop, RxTimeout, RxWait, RxWoken, RxJoin,
                      RxSpuriousWakeup, StopStream
  <2>2. UNCHANGED <<con, up, down>> /\ (rx' = "start" => rx = "start")
    BY <1>2 DEF RxLoop, RxTimeout, RxWait, RxWoken, RxJoin, RxSpuriousWakeup,
                StopStream
  <2> QED BY <2>1, <2>2, QuietFollows
<1>3. CASE RxStarted
  <2>1. /\ dut'.tx_state = dut.tx_state /\ dut'.tx_stop_cnt = dut.tx_stop_cnt
        /\ dut'.num_retry = dut.num_retry /\ dut'.tc = dut.tc
        /\ dut'.reset_rx = dut.reset_rx
        /\ rx = "start" /\ UNCHANGED <<up, down>>
    BY <1>1, <1>3 DEF RxStarted, Dut
  <2>2. TestInv /\ ResetInv
    BY DEF FollowInv
  <2>3. SentByDut' = SentByDut /\ SentByDut \in Nat /\ Weight(con.tc, up) \in Nat
    BY <2>1, FollowNumbers DEF SentByDut
  <2> QED BY <2>1, <2>2, <2>3, StationFollows DEF TestInv, ResetInv
<1> QED BY <1>2, <1>3, RxPacketFollows DEF RxStep

(* The link's steps.                                                       *)
LEMMA LinkFollows ==
  ASSUME IInv, IInv', FollowInv, con.tc # "M_U", Lose \/ Overtake,
         UNCHANGED <<dutVars, con>>
  PROVE  FollowInv'
<1>1. /\ up \in Queue /\ down \in Queue /\ SentByDut \in Nat
      /\ Weight(con.tc, up) \in Nat /\ Weight(con.tc, up') \in Nat
  BY FollowNumbers, WeightNat DEF IInv, LinkInv
<1>2. SentByDut' = SentByDut
  BY DEF SentByDut, dutVars
<1>3. TestInv /\ ResetInv
  BY DEF FollowInv
<1>4. \A m : Has(down', m) => Has(down, m)
  <2>1. Lost(down, down') \/ Overtaken(down, down') \/ down' = down
    BY DEF Lose, Overtake
  <2> QED BY <1>1, <2>1, LostWeighs, OvertakenWeighs
<1>5. /\ Weight(con.tc, up') <= Weight(con.tc, up)
      /\ \A m : Has(up', m) => Has(up, m)
      /\ Has(up, "RESET") =>
           Has(up', "RESET") \/ Weight(con.tc, up') < Weight(con.tc, up)
  <2>1. CASE Lost(up, up')
    <3>1. \A p \in Packet : p.msg = "RESET" => Counts(con.tc, p)
      BY DEF Counts, Data
    <3> QED BY <1>1, <2>1, <3>1, LostWeighs
  <2>2. CASE Overtaken(up, up')
    BY <1>1, <2>2, OvertakenWeighs
  <2>3. CASE up' = up
    BY <1>1, <2>3
  <2> QED BY <2>1, <2>2, <2>3 DEF Lose, Overtake
<1>6. Has(up', "RESET_STOP") =>
        \/ Has(up', "RESET")
        \/ Weight(con.tc, up') < Weight(con.tc, up)
        \/ Has(up, "RESET_STOP") /\ ~Has(up, "RESET")
  BY <1>5
<1> QED BY <1>1, <1>2, <1>3, <1>4, <1>5, <1>6, StationFollows
        DEF TestInv, ResetInv, dutVars

(* The console's steps.  What it does with a packet: start over, ignore    *)
(* it, or go on with it.                                                   *)
Restarts(c, p, h) ==
  /\ p.msg = "HELLO"
  /\ h.con.state \in {0, 1} /\ h.con.num_retry = c.num_retry /\ ~h.con.reset

GoesOn(c, p, h) ==
  /\ p.msg # "HELLO" /\ ~c.reset
  /\ p.msg = "RESET_STOP" => h.con.stop
  /\ h.con.state \in {c.state, c.state + 1}
  /\ h.con.state # c.state =>
       /\ c.tc = "L_1" => p # Data("VO") /\ c.state < 2
       /\ c.state # 0
       /\ c.state = 1 => p.msg = "CONFIRM"
  /\ \/ p.msg # "RESET" /\ h.con.num_retry = c.num_retry /\ ~h.con.reset
     \/ /\ h.con.num_retry > c.num_retry /\ h.con.reset
        /\ c.tc = "L_1" => p # Data("VO")

Takes(c, p, h) ==
  /\ h.con.tc = c.tc
  /\ \A i \in DOMAIN h.tx : h.tx[i].msg \in Tests => h.tx[i].msg = c.tc
  /\ Has(h.tx, "RESET") => h.con.num_retry > 0
  /\ \/ Restarts(c, p, h)
     \/ p.msg # "HELLO" /\ c.reset /\ h.con = c
     \/ GoesOn(c, p, h)

(* A packet of two sequences is one of the first or of the second.         *)
LEMMA Joined ==
  ASSUME NEW t \in Seq(Packet), NEW u \in Seq(Packet), NEW z, z = t \o u,
         NEW i \in DOMAIN z
  PROVE  (\E j \in DOMAIN t : z[i] = t[j]) \/ (\E j \in DOMAIN u : z[i] = u[j])
<1>2. /\ z \in Seq(Packet) /\ Len(z) = Len(t) + Len(u)
      /\ \A k \in 1..(Len(t) + Len(u)) :
           z[k] = IF k <= Len(t) THEN t[k] ELSE u[k - Len(t)]
  BY ConcatProperties
<1>3. PICK m \in Nat, n \in Nat : m = Len(t) /\ n = Len(u)
  OBVIOUS
<1>4. DOMAIN t = 1..m /\ DOMAIN u = 1..n /\ i \in 1..(m + n)
  BY <1>2, <1>3
<1>5. z[i] = IF i <= m THEN t[i] ELSE u[i - m]
  BY <1>2, <1>3, <1>4
<1>6. CASE i <= m
  <2>1. i \in DOMAIN t /\ z[i] = t[i]
    BY <1>4, <1>5, <1>6
  <2> QED BY <2>1
<1>7. CASE ~(i <= m)
  <2>1. i - m \in DOMAIN u /\ z[i] = u[i - m]
    BY <1>3, <1>4, <1>5, <1>7
  <2> QED BY <2>1
<1> QED BY <1>6, <1>7

LEMMA HandledTakes ==
  ASSUME NEW c, ConGood(c, ConsoleRetries), NEW p \in Packet,
         c.tc = "L_1" => c.state <= 2
  PROVE  Takes(c, p, Handled(c, p))
<1> USE ConsoleAssumption
<1>0. /\ c \in ConFields(ConsoleRetries) /\ c.state \in 0..9
      /\ c.num_retry \in Nat /\ c.reset \in BOOLEAN
  BY DEF ConGood, ConFields
<1>1. CASE p.msg = "HELLO"
  <2>1. PICK g : g = Greeted(c)
    OBVIOUS
  <2>2. ConGood(g, ConsoleRetries)
    BY <2>1, GreetedGood
  <2>3. g.tc = c.tc /\ g.state = 0 /\ g.num_retry = c.num_retry /\ ~g.reset
    BY <1>0, <2>1, ConsoleMoves
  <2>4. PICK h : h = Call(g, p)
    OBVIOUS
  <2>5. Follows(g, p, h)
    BY <2>2, <2>3, <2>4, CallFollows
  <2>6. Restarts(c, p, h)
    BY <1>1, <2>3, <2>5 DEF Follows, Restarts
  <2>7. Has(h.tx, "RESET") => h.con.num_retry > 0
    BY <1>0, <2>3, <2>5 DEF Follows
  <2>8. Handled(c, p) = h
    BY <1>1, <2>1, <2>4 DEF Handled
  <2> QED BY <2>3, <2>5, <2>6, <2>7, <2>8 DEF Follows, Takes
<1>2. CASE p.msg # "HELLO" /\ c.reset
  <2>1. Handled(c, p) = Done(c, <<>>)
    BY <1>2 DEF Handled
  <2> QED BY <1>2, <2>1 DEF Done, Takes, Has
<1>3. CASE p.msg = "RESET" /\ ~c.reset
  <2>1. PICK d : d = [c EXCEPT !.reset_rx = TRUE]
    OBVIOUS
  <2>2. ConGood(d, ConsoleRetries)
    BY <2>1 DEF ConGood, ConFields
  <2>3. d.tc = c.tc /\ d.state = c.state /\ d.num_retry = c.num_retry
    BY <1>0, <2>1 DEF ConFields
  <2>4. PICK r : r = Reset(d)
    OBVIOUS
  <2>5. ConGood(r.con, ConsoleRetries + 1) /\ r.tx \in Seq(Packet)
    BY <2>2, <2>4, ResetGood DEF GoodResult
  <2>6. /\ r.con.tc = c.tc /\ r.con.state = c.state
        /\ r.con.num_retry = c.num_retry + 1 /\ r.con.reset
    <3>1. d \in ConFields(ConsoleRetries)
      BY <2>2 DEF ConGood
    <3> QED BY <2>3, <2>4, <3>1, ConsoleMoves
  <2>7. PICK h : h = Call(r.con, p)
    OBVIOUS
  <2>8. Follows(r.con, p, h)
    BY <2>5, <2>6, <2>7, CallFollows
  <2>9. h.tx \in Seq(Packet)
    BY <2>5, <2>7, CallGood DEF GoodResult
  <2>10. p # Data("VO")
    BY <1>3 DEF Data
  <2>a. PICK k \in Nat : k = c.num_retry
    BY <1>0
  <2>b. h.con.num_retry \in {k + 1, k + 1 + 1} /\ h.con.reset
    BY <2>6, <2>8, <2>a DEF Follows
  <2>11. /\ h.con.num_retry > c.num_retry /\ h.con.num_retry > 0 /\ h.con.reset
         /\ h.con.tc = c.tc
    BY <2>6, <2>8, <2>a, <2>b DEF Follows
  <2>12. PICK e : e = Done(h.con, r.tx \o h.tx)
    OBVIOUS
  <2>13. e.con = h.con /\ e.tx = r.tx \o h.tx
    BY <2>12 DEF Done
  <2>14. GoesOn(c, p, e)
    BY <1>0, <1>3, <2>6, <2>8, <2>10, <2>11, <2>13 DEF Follows, GoesOn
  <2>15. ASSUME NEW i \in DOMAIN e.tx, e.tx[i].msg \in Tests
         PROVE  e.tx[i].msg = c.tc
    <3>1. PICK t, u : t = r.tx /\ u = h.tx
      OBVIOUS
    <3>2. t \in Seq(Packet) /\ u \in Seq(Packet)
      BY <2>5, <2>9, <3>1
    <3>3. CASE \E j \in DOMAIN t : e.tx[i] = t[j]
      <4>1. e.tx[i].msg \in {"RESET_STOP", "RESET_RESP", "RESET"}
        BY <2>4, <3>1, <3>3, ResetSends
      <4> QED BY <2>15, <4>1 DEF Tests
    <3>4. CASE \E j \in DOMAIN u : e.tx[i] = u[j]
      BY <2>6, <2>8, <2>15, <3>1, <3>4 DEF Follows
    <3>5. PICK z : z = e.tx
      OBVIOUS
    <3>6. z = t \o u /\ i \in DOMAIN z
      BY <2>13, <3>1, <3>5
    <3>7. (\E j \in DOMAIN t : z[i] = t[j]) \/ (\E j \in DOMAIN u : z[i] = u[j])
      BY <3>2, <3>6, Joined
    <3> QED BY <3>3, <3>4, <3>5, <3>7
  <2>16. Handled(c, p) = e
    BY <1>3, <2>1, <2>4, <2>7, <2>12 DEF Handled
  <2> QED BY <2>11, <2>13, <2>14, <2>15, <2>16 DEF Takes
<1>4. CASE p.msg = "RESET_STOP" /\ ~c.reset
  <2>1. PICK d : d = [c EXCEPT !.stop = TRUE]
    OBVIOUS
  <2>2. ConGood(d, ConsoleRetries)
    BY <2>1 DEF ConGood, ConFields
  <2>3. /\ d.tc = c.tc /\ d.state = c.state /\ d.num_retry = c.num_retry
        /\ d.reset = c.reset /\ d.stop
    BY <1>0, <2>1 DEF ConFields
  <2>4. PICK h : h = Call(d, p)
    OBVIOUS
  <2>5. Follows(d, p, h)
    BY <2>2, <2>3, <2>4, CallFollows
  <2>6. GoesOn(c, p, h)
    BY <1>0, <1>4, <2>3, <2>5 DEF Follows, GoesOn
  <2>7. Has(h.tx, "RESET") => h.con.num_retry > 0
    BY <1>0, <2>3, <2>5 DEF Follows
  <2>8. Handled(c, p) = h
    BY <1>4, <2>1, <2>4 DEF Handled
  <2> QED BY <2>3, <2>5, <2>6, <2>7, <2>8 DEF Follows, Takes
<1>5. CASE p.msg \notin {"HELLO", "RESET", "RESET_STOP"} /\ ~c.reset
  <2>1. PICK h : h = Call(c, p)
    OBVIOUS
  <2>2. Follows(c, p, h)
    BY <2>1, CallFollows
  <2>3. GoesOn(c, p, h)
    BY <1>0, <1>5, <2>2 DEF Follows, GoesOn
  <2>4. Has(h.tx, "RESET") => h.con.num_retry > 0
    BY <1>0, <2>2 DEF Follows
  <2>5. Handled(c, p) = h
    BY <1>5, <2>1 DEF Handled
  <2> QED BY <2>2, <2>3, <2>4, <2>5 DEF Follows, Takes
<1> QED BY <1>0, <1>1, <1>2, <1>3, <1>4, <1>5

(* A console that takes a packet stays behind what was sent.               *)
LEMMA TakesKeepsAhead ==
  ASSUME NEW c, c.state \in 0..9, c.num_retry \in Nat, c.reset \in BOOLEAN,
         ~c.stop, NEW q \in Queue, q # <<>>, NEW p, p = Head(q),
         NEW h, Takes(c, p, h), h.con.num_retry \in Nat,
         c.reset => c.num_retry > 0,
         NEW s \in Nat, AheadOf(c, s, q)
  PROVE  AheadOf(h.con, s, Tail(q))
<1>1. /\ Weight(c.tc, Tail(q)) <= Weight(c.tc, q)
      /\ Counts(c.tc, p) => Weight(c.tc, Tail(q)) < Weight(c.tc, q)
      /\ \A m : Has(q, m) => p.msg = m \/ Has(Tail(q), m)
      /\ \A m : Has(Tail(q), m) => Has(q, m)
  BY TailWeighs
<1>2. Weight(c.tc, q) \in Nat /\ Weight(c.tc, Tail(q)) \in Nat
  BY WeightNat, HeadTailGood
<1>3. h.con.tc = c.tc
  BY DEF Takes
<1>4. PICK a \in Nat, w \in Nat, v \in Nat, n \in Nat, k \in Nat :
        /\ a = Advanced(c) /\ w = Weight(c.tc, q) /\ v = Weight(c.tc, Tail(q))
        /\ n = c.num_retry /\ k = h.con.num_retry
  <2>1. PICK x \in 0..9 : x = c.state
    OBVIOUS
  <2>2. Advanced(c) = IF x = 0 THEN 0 ELSE x - 1
    BY <2>1 DEF Advanced
  <2>3. Advanced(c) \in Nat
    BY <2>2
  <2> QED BY <1>2, <2>3
<1>5. /\ a <= s /\ a + w <= s /\ v <= w
      /\ n > 0 => w < s /\ (~c.reset => a + w < s)
      /\ Has(q, "RESET_STOP") /\ n = 0 => a + w < s \/ Has(q, "RESET")
  BY <1>1, <1>4 DEF AheadOf
<1>6. CASE Restarts(c, p, h)
  <2>1. Advanced(h.con) = 0 /\ k = n
    BY <1>4, <1>6 DEF Restarts, Advanced
  <2>2. Has(Tail(q), "RESET_STOP") => Has(q, "RESET_STOP")
    BY <1>1
  <2>3. Has(q, "RESET") => Has(Tail(q), "RESET")
    BY <1>1, <1>6 DEF Restarts
  <2> QED BY <1>3, <1>4, <1>5, <2>1, <2>2, <2>3 DEF AheadOf
<1>7. CASE c.reset /\ h.con = c
  <2>1. n > 0
    BY <1>4, <1>7
  <2> QED BY <1>4, <1>5, <1>7, <2>1 DEF AheadOf
<1>8. CASE GoesOn(c, p, h)
  <2>1. PICK b \in Nat : b = Advanced(h.con) /\ b \in {a, a + 1}
                         /\ (b # a => h.con.state # c.state)
    <3>1. CASE h.con.state = c.state
      BY <1>4, <3>1 DEF Advanced
    <3>2. CASE h.con.state # c.state
      <4>1. c.state # 0 /\ h.con.state = c.state + 1
        BY <1>8, <3>2 DEF GoesOn
      <4>2. PICK x \in 1..9 : x = c.state
        BY <4>1
      <4>3. h.con.state = x + 1 /\ x # 0 /\ x + 1 # 0
        BY <4>1, <4>2
      <4>4. Advanced(h.con) = x + 1 - 1 /\ Advanced(c) = x - 1
        BY <4>2, <4>3 DEF Advanced
      <4>5. Advanced(h.con) = a + 1
        BY <1>4, <4>2, <4>4
      <4> QED BY <3>2, <4>5
    <3> QED BY <3>1, <3>2
  <2>2. b # a \/ k # n => v < w \/ p.msg = "RESET_STOP"
    <3>1. b # a \/ k # n => (c.tc = "L_1" => p # Data("VO"))
      BY <1>4, <1>8, <2>1 DEF GoesOn
    <3> QED BY <1>1, <1>4, <1>8, <3>1 DEF Counts, GoesOn
  <2>3. k = n \/ (k > n /\ h.con.reset)
    BY <1>4, <1>8 DEF GoesOn
  <2>4. CASE p.msg = "RESET_STOP"
    <3>1. h.con.stop
      BY <1>8, <2>4 DEF GoesOn
    <3>2. Has(q, "RESET_STOP")
      <4>1. 1 \in DOMAIN q /\ q[1] = p
        BY DEF Queue
      <4> QED BY <2>4, <4>1 DEF Has
    <3>3. Has(q, "RESET") => w > 0
      <4>1. ASSUME Has(q, "RESET") PROVE Counted(c.tc, q) # {}
        <5>1. PICK i \in DOMAIN q : q[i].msg = "RESET"
          BY <4>1 DEF Has
        <5>2. Counts(c.tc, q[i])
          BY <5>1 DEF Counts, Data
        <5> QED BY <5>2 DEF Counted
      <4> QED BY <1>4, <4>1, WeightNat
    <3>4. ~c.reset
      BY <1>8 DEF GoesOn
    <3>5. a + 1 <= s
      BY <1>5, <3>2, <3>3, <3>4
    <3> QED BY <1>5, <2>1, <3>1, <3>5 DEF AheadOf
  <2>5. CASE p.msg # "RESET_STOP"
    <3>1. ~c.reset
      BY <1>8 DEF GoesOn
    <3>2. b <= s /\ b + v <= a + w
      BY <1>5, <2>1, <2>2, <2>5
    <3>3. k > 0 => v < s /\ (~h.con.reset => b + v < s)
      BY <1>5, <2>2, <2>3, <2>5, <3>1, <3>2
    <3>4. ASSUME Has(Tail(q), "RESET_STOP"), k = 0
          PROVE  b + v < s \/ Has(Tail(q), "RESET")
      <4>1. n = 0 /\ Has(q, "RESET_STOP")
        BY <1>1, <2>3, <3>4
      <4>2. p.msg # "RESET"
        BY <1>4, <1>8, <3>4, <4>1 DEF GoesOn
      <4> QED BY <1>1, <1>5, <3>2, <4>1, <4>2
    <3> QED BY <1>3, <1>4, <1>5, <2>1, <3>2, <3>3, <3>4 DEF AheadOf
  <2> QED BY <2>4, <2>5
<1> QED BY <1>6, <1>7, <1>8 DEF Takes

LEMMA ConsoleListens ==
  ASSUME IInv, ~con.stop
  PROVE  ConGood(con, ConsoleRetries)
<1>1. con \in ConFields(ConsoleRetries + 2)
  BY DEF IInv, ConsoleInv, ConGood
<1>2. con.num_retry \in 0..ConsoleRetries
  <2>1. con.num_retry \in Nat
    BY FollowNumbers
  <2>2. ~(con.num_retry > ConsoleRetries)
    BY DEF IInv, ConsoleInv, ConGood
  <2> QED BY ONLY <2>1, <2>2, ConsoleAssumption
<1>3. con \in ConFields(ConsoleRetries)
  BY ONLY <1>1, <1>2 DEF ConFields
<1> QED BY <1>3 DEF IInv, ConsoleInv, ConGood

LEMMA ConsoleStepFollows ==
  ASSUME IInv, IInv', FollowInv, con.tc # "M_U", UNCHANGED dutVars,
         ConsolePacket \/ ConsoleExpires
  PROVE  FollowInv'
<1>1. /\ SentByDut \in Nat /\ con.state \in 0..9 /\ con.num_retry \in Nat
      /\ up \in Queue /\ down \in Queue
  BY FollowNumbers DEF IInv, LinkInv
<1>2. TestInv /\ ConfirmInv /\ ResetInv /\ AheadOf(con, SentByDut, up)
  BY DEF FollowInv
<1>3. UNCHANGED <<dut, rx, SentByDut>>
  BY DEF dutVars, SentByDut
<1>4. con.reset \in BOOLEAN
  BY DEF IInv, ConsoleInv, ConGood, ConFields
<1>5. CASE ConsoleExpires
  <2>1. con' = [con EXCEPT !.stop = TRUE, !.expired = TRUE] /\ UNCHANGED <<up, down>>
    BY <1>5 DEF ConsoleExpires
  <2>2. /\ con'.tc = con.tc /\ con'.state = con.state
        /\ con'.num_retry = con.num_retry /\ con'.reset = con.reset /\ con'.stop
    BY <2>1 DEF IInv, ConsoleInv, ConGood, ConFields
  <2>3. AheadOf(con', SentByDut', up')
    BY <1>2, <1>3, <2>2 DEF AheadOf, Advanced
  <2> QED BY <1>2, <1>3, <2>1, <2>2, <2>3
          DEF FollowInv, TestInv, ConfirmInv, ResetInv
<1>6. CASE ConsolePacket
  <2>1. PICK p, h : p = Head(up) /\ h = Handled(con, p)
    OBVIOUS
  <2>2. /\ ~con.stop /\ up # <<>> /\ up' = Tail(up)
        /\ con' = h.con /\ down' = Sent(down, h.tx)
    BY <1>6, <2>1 DEF ConsolePacket
  <2>3. p \in Packet
    BY <1>1, <2>1, <2>2, HeadTailGood
  <2>4. ConGood(con, ConsoleRetries)
    BY <2>2, ConsoleListens
  <2>5. h.tx \in Seq(Packet)
    BY <2>1, <2>3, <2>4, HandledGood DEF GoodResult
  <2>6. Takes(con, p, h)
    BY <1>2, <2>1, <2>3, <2>4, HandledTakes DEF TestInv
  <2>7. con'.tc = con.tc /\ con'.num_retry \in Nat /\ con'.state \in 0..9
    BY <2>2, <2>6 DEF Takes, IInv, ConsoleInv, ConGood, ConFields
  <2>8. AheadOf(con', SentByDut', up')
    <3>1. con.reset => con.num_retry > 0
      BY <1>2 DEF ResetInv
    <3> QED BY <1>1, <1>2, <1>3, <1>4, <2>1, <2>2, <2>6, <2>7, <3>1,
               TakesKeepsAhead
  <2>9. \A m : /\ Has(down', m) => Has(down, m) \/ Has(h.tx, m)
               /\ Has(up', m) => Has(up, m)
    BY <1>1, <2>2, <2>5, SentHas, TailWeighs
  <2>10. TestInv'
    <3>1. \A m \in Tests : Has(h.tx, m) => m = con.tc
      BY <2>6 DEF Takes, Has
    <3>2. con'.tc = "L_1" => con'.state <= 2
      <4>1. PICK x \in 0..9 : x = con.state
        BY <1>1
      <4>2. con.tc = "L_1" =>
              con'.state \in {0, 1, x} \/ (con'.state = x + 1 /\ x < 2)
        BY <2>2, <2>6, <4>1 DEF Takes, Restarts, GoesOn
      <4>3. con.tc = "L_1" => x <= 2
        BY <1>2, <4>1 DEF TestInv
      <4> QED BY <2>7, <4>2, <4>3
    <3> QED BY <1>2, <1>3, <2>7, <2>9, <3>1, <3>2 DEF TestInv
  <2>11. ConfirmInv'
    <3>1. SUFFICES ASSUME dut.tx_state <= 1
                   PROVE  con'.state <= 1 /\ ~Has(up', "CONFIRM")
      BY <1>3 DEF ConfirmInv
    <3>2. con.state <= 1 /\ ~Has(up, "CONFIRM")
      BY <1>2, <3>1 DEF ConfirmInv
    <3>3. p.msg # "CONFIRM"
      <4>1. 1 \in DOMAIN up /\ up[1] = p
        BY <1>1, <2>1, <2>2 DEF Queue
      <4> QED BY <3>2, <4>1 DEF Has
    <3>4. con'.state <= 1
      <4>1. con.state \in {0, 1}
        BY <1>1, <3>2
      <4> QED BY <2>2, <2>6, <3>3, <4>1 DEF Takes, Restarts, GoesOn
    <3> QED BY <2>9, <3>2, <3>4
  <2>12. ResetInv'
    <3>1. con'.reset \/ Has(h.tx, "RESET") => con'.num_retry > 0
      BY <1>1, <1>2, <2>2, <2>6, <2>7
         DEF Takes, Restarts, GoesOn, ResetInv
    <3>2. con.num_retry > 0 => con'.num_retry > 0
      BY <1>1, <2>2, <2>6, <2>7 DEF Takes, Restarts, GoesOn
    <3> QED BY <1>2, <1>3, <2>9, <3>1, <3>2 DEF ResetInv
  <2> QED BY <2>7, <2>8, <2>10, <2>11, <2>12 DEF FollowInv
<1> QED BY <1>5, <1>6

(* The console keeps its test.                                             *)
LEMMA ConsoleKeepsTest ==
  ASSUME IInv, ConsolePacket \/ ConsoleExpires, con.tc # "L_1"
  PROVE  con'.tc = con.tc
<1>1. CASE ConsoleExpires
  BY <1>1 DEF ConsoleExpires, IInv, ConsoleInv, ConGood, ConFields
<1>2. CASE ConsolePacket
  <2>1. ~con.stop /\ up # <<>> /\ con' = Handled(con, Head(up)).con
    BY <1>2 DEF ConsolePacket
  <2>2. Head(up) \in Packet
    BY <2>1, HeadTailGood DEF IInv, LinkInv
  <2>3. Takes(con, Head(up), Handled(con, Head(up)))
    BY <2>1, <2>2, ConsoleListens, HandledTakes
  <2> QED BY <2>1, <2>3 DEF Takes
<1> QED BY <1>1, <1>2

LEMMA FollowInit == Init => FollowInv
<1> SUFFICES ASSUME Init PROVE FollowInv
  OBVIOUS
<1>1. /\ dut.tx_state = 0 /\ dut.rx_state = 0 /\ dut.tx_stop_cnt = 0
      /\ dut.num_retry = 0 /\ ~dut.reset_rx /\ rx = "loop"
  BY DEF Init, DutInit
<1>2. /\ con.state = 0 /\ ~con.reset /\ con.num_retry = 0
      /\ up = <<>> /\ down = <<>>
  BY DEF Init, ConsoleInit
<1>3. \A m : ~Has(up, m) /\ ~Has(down, m)
  BY <1>2 DEF Has
<1>4. Weight(con.tc, up) = 0
  <2>1. Counted(con.tc, up) = {}
    BY <1>2 DEF Counted
  <2> QED BY <2>1, FS_EmptySet DEF Weight
<1>5. SentByDut = 0 /\ Advanced(con) = 0
  BY <1>1, <1>2 DEF SentByDut, Advanced
<1>6. TestInv /\ ConfirmInv /\ ResetInv
  BY <1>1, <1>2, <1>3 DEF TestInv, ConfirmInv, ResetInv
<1>7. AheadOf(con, SentByDut, up)
  BY <1>2, <1>3, <1>4, <1>5 DEF AheadOf
<1> QED BY <1>6, <1>7 DEF FollowInv

LEMMA FollowNext == IInv /\ IInv' /\ FollowInv /\ [Next]_vars => FollowInv'
<1> SUFFICES ASSUME IInv, IInv', FollowInv, [Next]_vars, con'.tc # "M_U"
             PROVE  FollowInv'
  BY DEF FollowInv
<1>1. CASE (Sender \/ RxStep \/ RxSpuriousWakeup \/ StopStream) /\ UNCHANGED con
  BY <1>1, TxFollows, RxFollows DEF Sender
<1>2. CASE (ConsolePacket \/ Expires) /\ UNCHANGED dutVars
  <2>1. con.tc # "M_U"
    BY <1>2, ConsoleKeepsTest DEF Expires
  <2> QED BY <1>2, <2>1, ConsoleStepFollows DEF Expires
<1>3. CASE (Lose \/ Overtake) /\ UNCHANGED <<dutVars, con>>
  BY <1>3, LinkFollows
<1>4. CASE UNCHANGED vars
  BY <1>4, QuietFollows DEF vars, SameCounts
<1> QED BY <1>1, <1>2, <1>3, <1>4 DEF Next

LEMMA FollowAlways == Spec => []FollowInv
<1>1. Spec => []IInv
  BY Invariant
<1> QED BY <1>1, FollowInit, FollowNext, PTL DEF Spec

(***************************************************************************)
(* A console of any test but M_U never runs ahead of its station, however  *)
(* packets are lost, reordered or refused, and for every limit and queue:  *)
(* each function it has been through since the HELLO took a packet of its  *)
(* own that the station has sent (send_uapsd_console, send_uapsd).         *)
(***************************************************************************)
THEOREM ConsoleNeverAhead == Spec => [](con.tc # "M_U" => ConsoleFollows)
<1>1. IInv /\ FollowInv => (con.tc # "M_U" => ConsoleFollows)
  <2> SUFFICES ASSUME IInv, FollowInv, con.tc # "M_U", con.state > 1
               PROVE  con.state - 1 <= SentAfterHello
    BY DEF ConsoleFollows
  <2>1. /\ con.state \in 0..9 /\ dut.tx_state \in 0..10
        /\ dut.tx_stop_cnt \in Nat /\ dut.num_retry \in Nat
    BY FollowNumbers
  <2>2. dut.tx_state > 1 /\ Advanced(con) <= SentByDut
    BY <2>1 DEF FollowInv, ConfirmInv, AheadOf
  <2>3. SentByDut = SentAfterHello /\ Advanced(con) = con.state - 1
    BY <2>1, <2>2 DEF SentByDut, SentAfterHello, Advanced
  <2> QED BY <2>2, <2>3
<1> QED BY <1>1, FollowAlways, Invariant, PTL

-----------------------------------------------------------------------------
(* What a prompt console sends for the tests, and what the station awaits. *)

(* How many data packets the functions of a test have sent before each,    *)
(* and how many the station's receiver awaits.                             *)
Answered ==
  [B_D |-> <<0, 0, 0, 1, 1, 1, 1>>, B_H |-> <<0, 0, 0, 2, 2, 2, 2>>,
   B_B |-> <<0, 0, 0, 0, 0, 0, 0, 0>>, B_M |-> <<0, 0, 0, 0, 0>>,
   M_D |-> <<0, 0, 0, 1, 2, 3, 4, 4>>, B_Z |-> <<0, 0, 1, 2, 2>>,
   M_Y |-> <<0, 0, 0, 1, 1, 2, 3, 3>>, L_1 |-> <<0, 0, 0, 0, 0>>,
   A_Y |-> <<0, 0, 0, 1, 1, 2, 2, 3, 3>>, B_W |-> <<0, 0, 0, 2, 4, 4, 4>>,
   A_J |-> <<0, 0, 0, 0, 4, 4>>, M_V |-> <<0, 0, 0, 1, 2, 3, 3>>,
   M_U |-> <<0, 0, 0, 1, 2, 3, 4, 4>>,
   A_U |-> <<0, 0, 0, 1, 1, 2, 2, 3, 3, 3>>, M_L |-> <<0, 0, 0, 1, 1>>,
   B_K |-> <<0, 0, 0, 1, 2, 2, 2>>, M_B |-> <<0, 0, 0, 0, 0, 0, 0, 0>>,
   M_K |-> <<0, 0, 0, 1, 2, 2, 2>>, M_W |-> <<0, 0, 0, 2, 4, 4, 4>>]
Awaited(tc) == Len(sta_uapsd_recv_tbl[tc]) - 2

(* A function that sends k data packets and then e STOPs.                  *)
Gives(fn, k, e) ==
  /\ fn \in ConsoleFunction /\ fn.f \in {"answer", "stop"} /\ k + e <= 5
  /\ Len(fn.tx) = k + e
  /\ \A i \in 1..(k + e) :
       /\ i <= k => fn.tx[i].msg = "DEFAULT"
       /\ i > k => fn.tx[i].msg = "STOP"

LEMMA EchoGives ==
  ASSUME NEW ac \in Categories, NEW acs \in Seq(Categories),
         NEW n \in 0..4, n = Len(acs)
  PROVE  Gives(Echo(ac, acs), n, 0) /\ Gives(EchoStop(ac, acs), n, 1)
<1>2. DOMAIN acs = 1..n /\ \A i \in 1..n : acs[i] \in Categories
  OBVIOUS
<1>3. PICK s : s = [i \in DOMAIN acs |-> Data(acs[i])]
  OBVIOUS
<1>4. \A x : Data(x).msg = "DEFAULT" /\ Msg(x).msg = x
  BY DEF Data, Msg
<1>5. /\ s \in Seq(Packet) /\ Len(s) = n
      /\ \A i \in 1..n : s[i].msg = "DEFAULT"
  <2>1. \A i \in 1..n : Data(acs[i]) \in Packet
    BY <1>2, PacketsGood DEF Messages
  <2>2. s \in [1..n -> Packet]
    BY <1>2, <1>3, <2>1
  <2>3. \A i \in 1..n : s[i].msg = "DEFAULT"
    BY <1>2, <1>3, <1>4
  <2> QED BY <2>2, <2>3
<1>6. PICK t, u : t = <<Msg("STOP")>> /\ u = s \o t
  OBVIOUS
<1>7. t \in Seq(Packet) /\ Len(t) = 1 /\ t[1].msg = "STOP"
  BY <1>4, <1>6, ControlPackets DEF Messages
<1>8. /\ Len(u) = Len(s) + Len(t)
      /\ \A i \in 1..(Len(s) + Len(t)) :
           u[i] = IF i <= Len(s) THEN s[i] ELSE t[i - Len(s)]
  BY <1>5, <1>6, <1>7, ConcatProperties
<1>9. /\ Len(u) = n + 1
      /\ \A i \in 1..(n + 1) :
           /\ i <= n => u[i].msg = "DEFAULT"
           /\ i > n => u[i].msg = "STOP"
  <2>1. \A i \in 1..(n + 1) : u[i] = IF i <= n THEN s[i] ELSE t[i - n]
    BY <1>5, <1>7, <1>8
  <2>2. \A i \in 1..n : u[i].msg = "DEFAULT"
    BY <1>5, <2>1
  <2>3. u[n + 1] = t[1]
    BY <2>1
  <2> QED BY <1>5, <1>7, <1>8, <2>2, <2>3
<1>10. Echo(ac, acs) \in ConsoleFunction /\ EchoStop(ac, acs) \in ConsoleFunction
  BY EchoGood
<1>11. /\ Echo(ac, acs).tx = s /\ Echo(ac, acs).f = "answer"
       /\ EchoStop(ac, acs).tx = u /\ EchoStop(ac, acs).f = "answer"
  BY <1>3, <1>6 DEF Echo, EchoStop, Answer
<1>12. Gives(Echo(ac, acs), n, 0)
  BY <1>5, <1>10, <1>11 DEF Gives
<1>13. Gives(EchoStop(ac, acs), n, 1)
  BY <1>9, <1>10, <1>11 DEF Gives
<1> QED BY <1>12, <1>13

LEMMA FunctionsGive ==
  /\ Gives(rx_confirm, 0, 0) /\ Gives(rx_confirm_tx_vi, 1, 0)
  /\ Gives(rx_tx_stop, 0, 1)
  /\ Gives(rx_vo_tx_vo, 1, 0) /\ Gives(rx_vo_tx_vo_tx_stop, 1, 1)
  /\ Gives(rx_vo_tx_all_tx_stop, 4, 1)
  /\ Gives(rx_be_tx_be, 1, 0) /\ Gives(rx_be_tx_be_tx_stop, 1, 1)
  /\ Gives(rx_vi_tx_be, 1, 0) /\ Gives(rx_vi_tx_bk, 1, 0)
  /\ Gives(rx_vo_tx_bcst_tx_stop, 1, 1)
  /\ Gives(rx_vi_tx_bcst, 2, 0) /\ Gives(rx_be_tx_bcst, 2, 0)
  /\ Gives(rx_be_tx_bcst_tx_stop, 1, 1)
  /\ Gives(rx_vi_tx_vi, 1, 0) /\ Gives(rx_vi_tx_vi_tx_stop, 1, 1)
  /\ Gives(rx_vi_tx_vo_tx_stop, 1, 1)
  /\ Gives(rx_vo_tx_stop, 0, 1) /\ Gives(rx_vi_tx_stop, 0, 1)
  /\ Gives(rx_bk_tx_stop, 0, 1) /\ Gives(rx_vo_tx_2vo, 2, 0)
  /\ Gives(rx_be, 0, 0) /\ Gives(rx_vi, 0, 0) /\ Gives(rx_vo, 0, 0)
<1>1. /\ "VO" \in Categories /\ "VI" \in Categories
      /\ "BE" \in Categories /\ "BK" \in Categories
  BY DEF Categories
<1>e. \A n \in 0..4 : \A x \in Categories, s \in Seq(Categories) :
        Len(s) = n => Gives(Echo(x, s), n, 0) /\ Gives(EchoStop(x, s), n, 1)
  BY EchoGives
<1>3. ASSUME NEW x \in Categories
      PROVE  Gives(Echo(x, <<>>), 0, 0) /\ Gives(EchoStop(x, <<>>), 0, 1)
  <2>1. PICK s : s = <<>>
    OBVIOUS
  <2>2. s \in Seq(Categories) /\ Len(s) = 0
    BY <2>1
  <2>3. Gives(Echo(x, s), 0, 0) /\ Gives(EchoStop(x, s), 0, 1)
    BY ONLY <1>3, <1>e, <2>2, 0 \in 0..4, Zenon
  <2> QED BY <2>1, <2>3
<1>4. ASSUME NEW x \in Categories, NEW y \in Categories
      PROVE  Gives(Echo(x, <<y>>), 1, 0) /\ Gives(EchoStop(x, <<y>>), 1, 1)
  <2>1. PICK s : s = <<y>>
    OBVIOUS
  <2>2. s \in Seq(Categories) /\ Len(s) = 1
    BY <2>1
  <2>3. Gives(Echo(x, s), 1, 0) /\ Gives(EchoStop(x, s), 1, 1)
    BY <1>e, <2>2
  <2> QED BY <2>1, <2>3
<1>5. ASSUME NEW x \in Categories, NEW y \in Categories, NEW z \in Categories
      PROVE  Gives(Echo(x, <<y, z>>), 2, 0)
  <2>1. PICK s : s = <<y, z>>
    OBVIOUS
  <2>2. s \in Seq(Categories) /\ Len(s) = 2
    BY <2>1
  <2>3. Gives(Echo(x, s), 2, 0)
    BY <1>e, <2>2
  <2> QED BY <2>1, <2>3
<1>6. Gives(rx_vo_tx_all_tx_stop, 4, 1)
  <2>1. PICK s : s = <<"VO", "VI", "BE", "BK">>
    OBVIOUS
  <2>2. s \in Seq(Categories) /\ Len(s) = 4
    BY <1>1, <2>1
  <2>3. Gives(EchoStop("VO", s), 4, 1)
    BY <1>1, <1>e, <2>2
  <2> QED BY <2>1, <2>3 DEF rx_vo_tx_all_tx_stop
<1>7. Gives(rx_confirm, 0, 0)
  <2>1. rx_confirm.f = "answer" /\ rx_confirm.tx = <<>>
    BY DEF rx_confirm, Answer
  <2> QED BY <2>1, ConsoleFunctionsGood DEF Gives
<1>8. Gives(rx_confirm_tx_vi, 1, 0)
  <2>1. PICK t : t = <<Data("VI")>>
    OBVIOUS
  <2>2. Len(t) = 1 /\ t[1].msg = "DEFAULT"
    BY <2>1 DEF Data
  <2>3. rx_confirm_tx_vi.f = "answer" /\ rx_confirm_tx_vi.tx = t
    BY <2>1 DEF rx_confirm_tx_vi, Answer
  <2> QED BY <2>2, <2>3, ConsoleFunctionsGood DEF Gives
<1>9. Gives(rx_tx_stop, 0, 1)
  <2>1. PICK t : t = <<Msg("STOP")>>
    OBVIOUS
  <2>2. Len(t) = 1 /\ t[1].msg = "STOP"
    BY <2>1 DEF Msg
  <2>3. rx_tx_stop.f = "stop" /\ rx_tx_stop.tx = t
    BY <2>1 DEF rx_tx_stop
  <2> QED BY <2>2, <2>3, ConsoleFunctionsGood DEF Gives
<1>10. /\ Gives(rx_be, 0, 0) /\ Gives(rx_vi, 0, 0) /\ Gives(rx_vo, 0, 0)
       /\ Gives(rx_vo_tx_stop, 0, 1) /\ Gives(rx_vi_tx_stop, 0, 1)
       /\ Gives(rx_bk_tx_stop, 0, 1)
  BY <1>1, <1>3 DEF rx_be, rx_vi, rx_vo, rx_vo_tx_stop, rx_vi_tx_stop,
                    rx_bk_tx_stop
<1>11. /\ Gives(rx_vo_tx_vo, 1, 0) /\ Gives(rx_be_tx_be, 1, 0)
       /\ Gives(rx_vi_tx_be, 1, 0) /\ Gives(rx_vi_tx_bk, 1, 0)
       /\ Gives(rx_vi_tx_vi, 1, 0)
  BY <1>1, <1>4 DEF rx_vo_tx_vo, rx_be_tx_be, rx_vi_tx_be, rx_vi_tx_bk,
                    rx_vi_tx_vi
<1>12. /\ Gives(rx_vo_tx_vo_tx_stop, 1, 1) /\ Gives(rx_be_tx_be_tx_stop, 1, 1)
       /\ Gives(rx_vo_tx_bcst_tx_stop, 1, 1)
       /\ Gives(rx_be_tx_bcst_tx_stop, 1, 1)
       /\ Gives(rx_vi_tx_vi_tx_stop, 1, 1) /\ Gives(rx_vi_tx_vo_tx_stop, 1, 1)
  BY <1>1, <1>4 DEF rx_vo_tx_vo_tx_stop, rx_be_tx_be_tx_stop,
                    rx_vo_tx_bcst_tx_stop, rx_be_tx_bcst_tx_stop,
                    rx_vi_tx_vi_tx_stop, rx_vi_tx_vo_tx_stop
<1>13. /\ Gives(rx_vi_tx_bcst, 2, 0) /\ Gives(rx_be_tx_bcst, 2, 0)
       /\ Gives(rx_vo_tx_2vo, 2, 0)
  BY <1>1, <1>5 DEF rx_vi_tx_bcst, rx_be_tx_bcst, rx_vo_tx_2vo
<1> QED BY <1>6, <1>7, <1>8, <1>9, <1>10, <1>11, <1>12, <1>13

(* Where the functions of a row are.                                       *)
LEMMA ConsoleRowAt ==
  ASSUME NEW fs \in Seq(ConsoleFunction), NEW n \in 1..6, Len(fs) = n,
         NEW r, r = ConsoleRow(fs)
  PROVE  /\ Len(r) = n + 3
         /\ r[1] = rx_hello /\ r[2] = rx_confirm /\ r[n + 3] = rx_tx_stop
         /\ \A i \in 1..n : r[i + 2] = fs[i]
<1>1. PICK a, b, s : /\ a = <<rx_hello, rx_confirm>> /\ b = <<rx_tx_stop>>
                     /\ s = a \o fs
  OBVIOUS
<1>2. /\ a \in Seq(ConsoleFunction) /\ Len(a) = 2
      /\ a[1] = rx_hello /\ a[2] = rx_confirm
      /\ b \in Seq(ConsoleFunction) /\ Len(b) = 1 /\ b[1] = rx_tx_stop
  BY <1>1, ConsoleFunctionsGood
<1>0. fs \in Seq(ConsoleFunction)
  OBVIOUS
<1>p. \A s1, s2 \in Seq(ConsoleFunction) :
        s1 \o s2 \in Seq(ConsoleFunction) /\ Len(s1 \o s2) = Len(s1) + Len(s2)
  BY ConcatProperties
<1>q. \A s1, s2 \in Seq(ConsoleFunction) : \A i \in 1..(Len(s1) + Len(s2)) :
        (s1 \o s2)[i] = IF i <= Len(s1) THEN s1[i] ELSE s2[i - Len(s1)]
  BY ConcatProperties
<1>h. s = a \o fs /\ a \in Seq(ConsoleFunction) /\ b \in Seq(ConsoleFunction)
  BY <1>1, <1>2
<1>i. s \in Seq(ConsoleFunction) /\ Len(s) = Len(a) + Len(fs)
  BY ONLY <1>0, <1>h, <1>p, Zenon
<1>j. \A i \in 1..(Len(a) + Len(fs)) :
        s[i] = IF i <= Len(a) THEN a[i] ELSE fs[i - Len(a)]
  BY <1>0, <1>h, <1>q
<1>3. /\ s \in Seq(ConsoleFunction) /\ Len(s) = Len(a) + Len(fs)
      /\ \A i \in 1..(Len(a) + Len(fs)) :
           s[i] = IF i <= Len(a) THEN a[i] ELSE fs[i - Len(a)]
  BY <1>i, <1>j
<1>4. r = s \o b
  BY <1>1 DEF ConsoleRow
<1>k. Len(r) = Len(s) + Len(b)
  BY ONLY <1>h, <1>i, <1>4, <1>p, Zenon
<1>l. \A i \in 1..(Len(s) + Len(b)) :
        r[i] = IF i <= Len(s) THEN s[i] ELSE b[i - Len(s)]
  BY <1>h, <1>i, <1>4, <1>q
<1>5. /\ Len(r) = Len(s) + Len(b)
      /\ \A i \in 1..(Len(s) + Len(b)) :
           r[i] = IF i <= Len(s) THEN s[i] ELSE b[i - Len(s)]
  BY <1>k, <1>l
<1>6. /\ Len(s) = n + 2 /\ s[1] = a[1] /\ s[2] = a[2]
      /\ \A i \in 1..n : s[i + 2] = fs[i]
  <2>1. Len(s) = n + 2 /\ \A i \in 1..(n + 2) :
                            s[i] = IF i <= 2 THEN a[i] ELSE fs[i - 2]
    BY <1>2, <1>3
  <2>2. \A i \in 1..n : i + 2 \in 1..(n + 2) /\ ~(i + 2 <= 2) /\ (i + 2) - 2 = i
    OBVIOUS
  <2> QED BY <2>1, <2>2
<1>a. \A i \in 1..(n + 3) : r[i] = IF i <= n + 2 THEN s[i] ELSE b[i - (n + 2)]
  BY <1>2, <1>5, <1>6
<1>b. (n + 3) - (n + 2) = 1 /\ ~(n + 3 <= n + 2) /\ n + 3 \in 1..(n + 3)
  OBVIOUS
<1>c. r[n + 3] = b[(n + 3) - (n + 2)]
  BY <1>a, <1>b
<1>d. Len(r) = n + 3
  BY <1>2, <1>5, <1>6
<1>7. /\ Len(r) = n + 3 /\ r[n + 3] = b[1]
      /\ \A i \in 1..(n + 2) : r[i] = s[i]
  BY <1>a, <1>b, <1>c, <1>d
<1>8. \A i \in 1..n : i + 2 \in 1..(n + 2)
  OBVIOUS
<1> QED BY <1>2, <1>6, <1>7, <1>8

(* A function that has sent x data packets before it and y after it, and a *)
(* STOP only when these are all the n of the test.                         *)
Step(fn, x, y, n) ==
  \E k \in 0..4, e \in 0..1 :
    Gives(fn, k, e) /\ y = x + k /\ (e = 1 => y = n)

Orderly(row, a, n) ==
  /\ Len(a) = Len(row) + 1 /\ \A s \in 1..Len(a) : a[s] \in 0..4
  /\ a[1] = 0 /\ a[2] = 0
  /\ \A s \in 2..Len(row) : Step(row[s], a[s], a[s + 1], n)

LEMMA RxRowLen ==
  ASSUME NEW n \in 0..4
  PROVE  Len(RxRow(n)) = n + 2
<1>1. PICK a, b, d : /\ a = <<"start">> /\ b = [i \in 1..n |-> "data"]
                     /\ d = <<"stop">>
  OBVIOUS
<1>2. /\ a \in Seq(RxFunctions) /\ Len(a) = 1
      /\ b \in Seq(RxFunctions) /\ Len(b) = n
      /\ d \in Seq(RxFunctions) /\ Len(d) = 1
  BY <1>1 DEF RxFunctions
<1>3. PICK s : s = a \o b
  OBVIOUS
<1>4. \A s1, s2 \in Seq(RxFunctions) :
        s1 \o s2 \in Seq(RxFunctions) /\ Len(s1 \o s2) = Len(s1) + Len(s2)
  BY ConcatProperties
<1>5. s \in Seq(RxFunctions) /\ Len(s) = Len(a) + Len(b)
  BY <1>2, <1>3, <1>4
<1>6. Len(s \o d) = Len(s) + Len(d)
  BY <1>2, <1>4, <1>5
<1>7. RxRow(n) = s \o d
  BY <1>1, <1>3 DEF RxRow
<1> QED BY <1>2, <1>5, <1>6, <1>7

(* The console's table and the receiver's agree on every test but the      *)
(* cyclic one, whose receiver takes what comes.                            *)
LEMMA TablesAgree ==
  ASSUME NEW tc \in Tests, tc # "L_1"
  PROVE  Orderly(uapsd_console_state_tbl[tc], Answered[tc], Awaited(tc))
<1>r. \A n \in 1..6 : \A fs \in Seq(ConsoleFunction) : Len(fs) = n =>
        /\ Len(ConsoleRow(fs)) = n + 3
        /\ ConsoleRow(fs)[2] = rx_confirm /\ ConsoleRow(fs)[n + 3] = rx_tx_stop
        /\ \A i \in 1..n : ConsoleRow(fs)[i + 2] = fs[i]
  BY ConsoleRowAt
<1>1. CASE tc = "B_D"
  <2>1. PICK fs, r : /\ fs = <<rx_vo_tx_vo, rx_vo_tx_stop, rx_tx_stop>>
                     /\ r = ConsoleRow(fs)
    OBVIOUS
  <2>2. fs \in Seq(ConsoleFunction) /\ Len(fs) = 3 /\ 3 \in 1..6
    BY <2>1, ConsoleFunctionsGood
  <2>3. /\ Len(r) = 3 + 3 /\ r[2] = rx_confirm /\ r[3 + 3] = rx_tx_stop
        /\ \A i \in 1..3 : r[i + 2] = fs[i]
    BY <1>r, <2>1, <2>2
  <2>4. PICK a : a = <<0, 0, 0, 1, 1, 1, 1>>
    OBVIOUS
  <2>5. /\ Len(a) = 7 /\ a[1] = 0 /\ a[2] = 0
        /\ \A s \in 1..7 : a[s] \in 0..4
    BY <2>4
  <2>6. Step(r[2], a[2], a[3], 1)
    BY <2>1, <2>3, <2>4, FunctionsGive DEF Step
  <2>7. Step(r[3], a[3], a[4], 1)
    BY <2>1, <2>3, <2>4, FunctionsGive DEF Step
  <2>8. Step(r[4], a[4], a[5], 1)
    BY <2>1, <2>3, <2>4, FunctionsGive DEF Step
  <2>9. Step(r[5], a[5], a[6], 1)
    BY <2>1, <2>3, <2>4, FunctionsGive DEF Step
  <2>10. Step(r[6], a[6], a[7], 1)
    BY <2>1, <2>3, <2>4, FunctionsGive DEF Step
  <2>11. \A s \in 2..6 : Step(r[s], a[s], a[s + 1], 1)
    BY <2>6, <2>7, <2>8, <2>9, <2>10
  <2>12. Awaited(tc) = 1
    BY <1>1, RxRowLen DEF Awaited, sta_uapsd_recv_tbl
  <2>13. uapsd_console_state_tbl[tc] = r /\ Answered[tc] = a
    BY <1>1, <2>1, <2>4 DEF uapsd_console_state_tbl, Answered
  <2>14. Orderly(r, a, 1)
    BY <2>3, <2>5, <2>11 DEF Orderly
  <2> QED BY <2>12, <2>13, <2>14
<1>2. CASE tc = "B_H"
  <2>1. PICK fs, r : /\ fs = <<rx_vo_tx_2vo, rx_vo_tx_stop, rx_tx_stop>>
                     /\ r = ConsoleRow(fs)
    OBVIOUS
  <2>2. fs \in Seq(ConsoleFunction) /\ Len(fs) = 3 /\ 3 \in 1..6
    BY <2>1, ConsoleFunctionsGood
  <2>3. /\ Len(r) = 3 + 3 /\ r[2] = rx_confirm /\ r[3 + 3] = rx_tx_stop
        /\ \A i \in 1..3 : r[i + 2] = fs[i]
    BY <1>r, <2>1, <2>2
  <2>4. PICK a : a = <<0, 0, 0, 2, 2, 2, 2>>
    OBVIOUS
  <2>5. /\ Len(a) = 7 /\ a[1] = 0 /\ a[2] = 0
        /\ \A s \in 1..7 : a[s] \in 0..4
    BY <2>4
  <2>6. Step(r[2], a[2], a[3], 2)
    BY <2>1, <2>3, <2>4, FunctionsGive DEF Step
  <2>7. Step(r[3], a[3], a[4], 2)
    BY <2>1, <2>3, <2>4, FunctionsGive DEF Step
  <2>8. Step(r[4], a[4], a[5], 2)
    BY <2>1, <2>3, <2>4, FunctionsGive DEF Step
  <2>9. Step(r[5], a[5], a[6], 2)
    BY <2>1, <2>3, <2>4, FunctionsGive DEF Step
  <2>10. Step(r[6], a[6], a[7], 2)
    BY <2>1, <2>3, <2>4, FunctionsGive DEF Step
  <2>11. \A s \in 2..6 : Step(r[s], a[s], a[s + 1], 2)
    BY <2>6, <2>7, <2>8, <2>9, <2>10
  <2>12. Awaited(tc) = 2
    BY <1>2, RxRowLen DEF Awaited, sta_uapsd_recv_tbl
  <2>13. uapsd_console_state_tbl[tc] = r /\ Answered[tc] = a
    BY <1>2, <2>1, <2>4 DEF uapsd_console_state_tbl, Answered
  <2>14. Orderly(r, a, 2)
    BY <2>3, <2>5, <2>11 DEF Orderly
  <2> QED BY <2>12, <2>13, <2>14
<1>3. CASE tc = "B_B"
  <2>1. PICK fs, r : /\ fs = <<rx_vo, rx_vi, rx_be, rx_bk_tx_stop>>
                     /\ r = ConsoleRow(fs)
    OBVIOUS
  <2>2. fs \in Seq(ConsoleFunction) /\ Len(fs) = 4 /\ 4 \in 1..6
    BY <2>1, ConsoleFunctionsGood
  <2>3. /\ Len(r) = 4 + 3 /\ r[2] = rx_confirm /\ r[4 + 3] = rx_tx_stop
        /\ \A i \in 1..4 : r[i + 2] = fs[i]
    BY <1>r, <2>1, <2>2
  <2>4. PICK a : a = <<0, 0, 0, 0, 0, 0, 0, 0>>
    OBVIOUS
  <2>5. /\ Len(a) = 8 /\ a[1] = 0 /\ a[2] = 0
        /\ \A s \in 1..8 : a[s] \in 0..4
    BY <2>4
  <2>6. Step(r[2], a[2], a[3], 0)
    BY <2>1, <2>3, <2>4, FunctionsGive DEF Step
  <2>7. Step(r[3], a[3], a[4], 0)
    BY <2>1, <2>3, <2>4, FunctionsGive DEF Step
  <2>8. Step(r[4], a[4], a[5], 0)
    BY <2>1, <2>3, <2>4, FunctionsGive DEF Step
  <2>9. Step(r[5], a[5], a[6], 0)
    BY <2>1, <2>3, <2>4, FunctionsGive DEF Step
  <2>10. Step(r[6], a[6], a[7], 0)
    BY <2>1, <2>3, <2>4, FunctionsGive DEF Step
  <2>11. Step(r[7], a[7], a[8], 0)
    BY <2>1, <2>3, <2>4, FunctionsGive DEF Step
  <2>12. \A s \in 2..7 : Step(r[s], a[s], a[s + 1], 0)
    BY <2>6, <2>7, <2>8, <2>9, <2>10, <2>11
  <2>13. Awaited(tc) = 0
    BY <1>3, RxRowLen DEF Awaited, sta_uapsd_recv_tbl
  <2>14. uapsd_console_state_tbl[tc] = r /\ Answered[tc] = a
    BY <1>3, <2>1, <2>4 DEF uapsd_console_state_tbl, Answered
  <2>15. Orderly(r, a, 0)
    BY <2>3, <2>5, <2>12 DEF Orderly
  <2> QED BY <2>13, <2>14, <2>15
<1>4. CASE tc = "B_M"
  <2>1. PICK fs, r : /\ fs = <<rx_vi_tx_stop>>
                     /\ r = ConsoleRow(fs)
    OBVIOUS
  <2>2. fs \in Seq(ConsoleFunction) /\ Len(fs) = 1 /\ 1 \in 1..6
    BY <2>1, ConsoleFunctionsGood
  <2>3. /\ Len(r) = 1 + 3 /\ r[2] = rx_confirm /\ r[1 + 3] = rx_tx_stop
        /\ \A i \in 1..1 : r[i + 2] = fs[i]
    BY <1>r, <2>1, <2>2
  <2>4. PICK a : a = <<0, 0, 0, 0, 0>>
    OBVIOUS
  <2>5. /\ Len(a) = 5 /\ a[1] = 0 /\ a[2] = 0
        /\ \A s \in 1..5 : a[s] \in 0..4
    BY <2>4
  <2>6. Step(r[2], a[2], a[3], 0)
    BY <2>1, <2>3, <2>4, FunctionsGive DEF Step
  <2>7. Step(r[3], a[3], a[4], 0)
    BY <2>1, <2>3, <2>4, FunctionsGive DEF Step
  <2>8. Step(r[4], a[4], a[5], 0)
    BY <2>1, <2>3, <2>4, FunctionsGive DEF Step
  <2>9. \A s \in 2..4 : Step(r[s], a[s], a[s + 1], 0)
    BY <2>6, <2>7, <2>8
  <2>10. Awaited(tc) = 0
    BY <1>4, RxRowLen DEF Awaited, sta_uapsd_recv_tbl
  <2>11. uapsd_console_state_tbl[tc] = r /\ Answered[tc] = a
    BY <1>4, <2>1, <2>4 DEF uapsd_console_state_tbl, Answered
  <2>12. Orderly(r, a, 0)
    BY <2>3, <2>5, <2>9 DEF Orderly
  <2> QED BY <2>10, <2>11, <2>12
<1>5. CASE tc = "M_D"
  <2>1. PICK fs, r : /\ fs = <<rx_vi_tx_be, rx_vi_tx_bk, rx_vi_tx_vi,
                               rx_vi_tx_vo_tx_stop>>
                     /\ r = ConsoleRow(fs)
    OBVIOUS
  <2>2. fs \in Seq(ConsoleFunction) /\ Len(fs) = 4 /\ 4 \in 1..6
    BY <2>1, ConsoleFunctionsGood
  <2>3. /\ Len(r) = 4 + 3 /\ r[2] = rx_confirm /\ r[4 + 3] = rx_tx_stop
        /\ \A i \in 1..4 : r[i + 2] = fs[i]
    BY <1>r, <2>1, <2>2
  <2>4. PICK a : a = <<0, 0, 0, 1, 2, 3, 4, 4>>
    OBVIOUS
  <2>5. /\ Len(a) = 8 /\ a[1] = 0 /\ a[2] = 0
        /\ \A s \in 1..8 : a[s] \in 0..4
    BY <2>4
  <2>6. Step(r[2], a[2], a[3], 4)
    BY <2>1, <2>3, <2>4, FunctionsGive DEF Step
  <2>7. Step(r[3], a[3], a[4], 4)
    BY <2>1, <2>3, <2>4, FunctionsGive DEF Step
  <2>8. Step(r[4], a[4], a[5], 4)
    BY <2>1, <2>3, <2>4, FunctionsGive DEF Step
  <2>9. Step(r[5], a[5], a[6], 4)
    BY <2>1, <2>3, <2>4, FunctionsGive DEF Step
  <2>10. Step(r[6], a[6], a[7], 4)
    BY <2>1, <2>3, <2>4, FunctionsGive DEF Step
  <2>11. Step(r[7], a[7], a[8], 4)
    BY <2>1, <2>3, <2>4, FunctionsGive DEF Step
  <2>12. \A s \in 2..7 : Step(r[s], a[s], a[s + 1], 4)
    BY <2>6, <2>7, <2>8, <2>9, <2>10, <2>11
  <2>13. Awaited(tc) = 4
    BY <1>5, RxRowLen DEF Awaited, sta_uapsd_recv_tbl
  <2>14. uapsd_console_state_tbl[tc] = r /\ Answered[tc] = a
    BY <1>5, <2>1, <2>4 DEF uapsd_console_state_tbl, Answered
  <2>15. Orderly(r, a, 4)
    BY <2>3, <2>5, <2>12 DEF Orderly
  <2> QED BY <2>13, <2>14, <2>15
<1>6. CASE tc = "M_Y"
  <2>1. PICK fs, r : /\ fs = <<rx_vi_tx_vi, rx_vo, rx_be_tx_be,
                               rx_be_tx_bcst_tx_stop>>
                     /\ r = ConsoleRow(fs)
    OBVIOUS
  <2>2. fs \in Seq(ConsoleFunction) /\ Len(fs) = 4 /\ 4 \in 1..6
    BY <2>1, ConsoleFunctionsGood
  <2>3. /\ Len(r) = 4 + 3 /\ r[2] = rx_confirm /\ r[4 + 3] = rx_tx_stop
        /\ \A i \in 1..4 : r[i + 2] = fs[i]
    BY <1>r, <2>1, <2>2
  <2>4. PICK a : a = <<0, 0, 0, 1, 1, 2, 3, 3>>
    OBVIOUS
  <2>5. /\ Len(a) = 8 /\ a[1] = 0 /\ a[2] = 0
        /\ \A s \in 1..8 : a[s] \in 0..4
    BY <2>4
  <2>6. Step(r[2], a[2], a[3], 3)
    BY <2>1, <2>3, <2>4, FunctionsGive DEF Step
  <2>7. Step(r[3], a[3], a[4], 3)
    BY <2>1, <2>3, <2>4, FunctionsGive DEF Step
  <2>8. Step(r[4], a[4], a[5], 3)
    BY <2>1, <2>3, <2>4, FunctionsGive DEF Step
  <2>9. Step(r[5], a[5], a[6], 3)
    BY <2>1, <2>3, <2>4, FunctionsGive DEF Step
  <2>10. Step(r[6], a[6], a[7], 3)
    BY <2>1, <2>3, <2>4, FunctionsGive DEF Step
  <2>11. Step(r[7], a[7], a[8], 3)
    BY <2>1, <2>3, <2>4, FunctionsGive DEF Step
  <2>12. \A s \in 2..7 : Step(r[s], a[s], a[s + 1], 3)
    BY <2>6, <2>7, <2>8, <2>9, <2>10, <2>11
  <2>13. Awaited(tc) = 3
    BY <1>6, RxRowLen DEF Awaited, sta_uapsd_recv_tbl
  <2>14. uapsd_console_state_tbl[tc] = r /\ Answered[tc] = a
    BY <1>6, <2>1, <2>4 DEF uapsd_console_state_tbl, Answered
  <2>15. Orderly(r, a, 3)
    BY <2>3, <2>5, <2>12 DEF Orderly
  <2> QED BY <2>13, <2>14, <2>15
<1>7. CASE tc = "A_Y"
  <2>1. PICK fs, r : /\ fs = <<rx_vi_tx_vi, rx_vo, rx_be_tx_be, rx_be,
                               rx_be_tx_bcst_tx_stop>>
                     /\ r = ConsoleRow(fs)
    OBVIOUS
  <2>2. fs \in Seq(ConsoleFunction) /\ Len(fs) = 5 /\ 5 \in 1..6
    BY <2>1, ConsoleFunctionsGood
  <2>3. /\ Len(r) = 5 + 3 /\ r[2] = rx_confirm /\ r[5 + 3] = rx_tx_stop
        /\ \A i \in 1..5 : r[i + 2] = fs[i]
    BY <1>r, <2>1, <2>2
  <2>4. PICK a : a = <<0, 0, 0, 1, 1, 2, 2, 3, 3>>
    OBVIOUS
  <2>5. /\ Len(a) = 9 /\ a[1] = 0 /\ a[2] = 0
        /\ \A s \in 1..9 : a[s] \in 0..4
    BY <2>4
  <2>6. Step(r[2], a[2], a[3], 3)
    BY <2>1, <2>3, <2>4, FunctionsGive DEF Step
  <2>7. Step(r[3], a[3], a[4], 3)
    BY <2>1, <2>3, <2>4, FunctionsGive DEF Step
  <2>8. Step(r[4], a[4], a[5], 3)
    BY <2>1, <2>3, <2>4, FunctionsGive DEF Step
  <2>9. Step(r[5], a[5], a[6], 3)
    BY <2>1, <2>3, <2>4, FunctionsGive DEF Step
  <2>10. Step(r[6], a[6], a[7], 3)
    BY <2>1, <2>3, <2>4, FunctionsGive DEF Step
  <2>11. Step(r[7], a[7], a[8], 3)
    BY <2>1, <2>3, <2>4, FunctionsGive DEF Step
  <2>12. Step(r[8], a[8], a[9], 3)
    BY <2>1, <2>3, <2>4, FunctionsGive DEF Step
  <2>13. \A s \in 2..8 : Step(r[s], a[s], a[s + 1], 3)
    BY <2>6, <2>7, <2>8, <2>9, <2>10, <2>11, <2>12
  <2>14. Awaited(tc) = 3
    BY <1>7, RxRowLen DEF Awaited, sta_uapsd_recv_tbl
  <2>15. uapsd_console_state_tbl[tc] = r /\ Answered[tc] = a
    BY <1>7, <2>1, <2>4 DEF uapsd_console_state_tbl, Answered
  <2>16. Orderly(r, a, 3)
    BY <2>3, <2>5, <2>13 DEF Orderly
  <2> QED BY <2>14, <2>15, <2>16
<1>8. CASE tc = "B_W"
  <2>1. PICK fs, r : /\ fs = <<rx_vi_tx_bcst, rx_vi_tx_bcst, rx_vi_tx_stop>>
                     /\ r = ConsoleRow(fs)
    OBVIOUS
  <2>2. fs \in Seq(ConsoleFunction) /\ Len(fs) = 3 /\ 3 \in 1..6
    BY <2>1, ConsoleFunctionsGood
  <2>3. /\ Len(r) = 3 + 3 /\ r[2] = rx_confirm /\ r[3 + 3] = rx_tx_stop
        /\ \A i \in 1..3 : r[i + 2] = fs[i]
    BY <1>r, <2>1, <2>2
  <2>4. PICK a : a = <<0, 0, 0, 2, 4, 4, 4>>
    OBVIOUS
  <2>5. /\ Len(a) = 7 /\ a[1] = 0 /\ a[2] = 0
        /\ \A s \in 1..7 : a[s] \in 0..4
    BY <2>4
  <2>6. Step(r[2], a[2], a[3], 4)
    BY <2>1, <2>3, <2>4, FunctionsGive DEF Step
  <2>7. Step(r[3], a[3], a[4], 4)
    BY <2>1, <2>3, <2>4, FunctionsGive DEF Step
  <2>8. Step(r[4], a[4], a[5], 4)
    BY <2>1, <2>3, <2>4, FunctionsGive DEF Step
  <2>9. Step(r[5], a[5], a[6], 4)
    BY <2>1, <2>3, <2>4, FunctionsGive DEF Step
  <2>10. Step(r[6], a[6], a[7], 4)
    BY <2>1, <2>3, <2>4, FunctionsGive DEF Step
  <2>11. \A s \in 2..6 : Step(r[s], a[s], a[s + 1], 4)
    BY <2>6, <2>7, <2>8, <2>9, <2>10
  <2>12. Awaited(tc) = 4
    BY <1>8, RxRowLen DEF Awaited, sta_uapsd_recv_tbl
  <2>13. uapsd_console_state_tbl[tc] = r /\ Answered[tc] = a
    BY <1>8, <2>1, <2>4 DEF uapsd_console_state_tbl, Answered
  <2>14. Orderly(r, a, 4)
    BY <2>3, <2>5, <2>11 DEF Orderly
  <2> QED BY <2>12, <2>13, <2>14
<1>9. CASE tc = "A_J"
  <2>1. PICK fs, r : /\ fs = <<rx_vo, rx_vo_tx_all_tx_stop>>
                     /\ r = ConsoleRow(fs)
    OBVIOUS
  <2>2. fs \in Seq(ConsoleFunction) /\ Len(fs) = 2 /\ 2 \in 1..6
    BY <2>1, ConsoleFunctionsGood
  <2>3. /\ Len(r) = 2 + 3 /\ r[2] = rx_confirm /\ r[2 + 3] = rx_tx_stop
        /\ \A i \in 1..2 : r[i + 2] = fs[i]
    BY <1>r, <2>1, <2>2
  <2>4. PICK a : a = <<0, 0, 0, 0, 4, 4>>
    OBVIOUS
  <2>5. /\ Len(a) = 6 /\ a[1] = 0 /\ a[2] = 0
        /\ \A s \in 1..6 : a[s] \in 0..4
    BY <2>4
  <2>6. Step(r[2], a[2], a[3], 4)
    BY <2>1, <2>3, <2>4, FunctionsGive DEF Step
  <2>7. Step(r[3], a[3], a[4], 4)
    BY <2>1, <2>3, <2>4, FunctionsGive DEF Step
  <2>8. Step(r[4], a[4], a[5], 4)
    BY <2>1, <2>3, <2>4, FunctionsGive DEF Step
  <2>9. Step(r[5], a[5], a[6], 4)
    BY <2>1, <2>3, <2>4, FunctionsGive DEF Step
  <2>10. \A s \in 2..5 : Step(r[s], a[s], a[s + 1], 4)
    BY <2>6, <2>7, <2>8, <2>9
  <2>11. Awaited(tc) = 4
    BY <1>9, RxRowLen DEF Awaited, sta_uapsd_recv_tbl
  <2>12. uapsd_console_state_tbl[tc] = r /\ Answered[tc] = a
    BY <1>9, <2>1, <2>4 DEF uapsd_console_state_tbl, Answered
  <2>13. Orderly(r, a, 4)
    BY <2>3, <2>5, <2>10 DEF Orderly
  <2> QED BY <2>11, <2>12, <2>13
<1>10. CASE tc = "M_V"
  <2>1. PICK fs, r : /\ fs = <<rx_vi_tx_vi, rx_be_tx_be, rx_vi_tx_vi_tx_stop>>
                     /\ r = ConsoleRow(fs)
    OBVIOUS
  <2>2. fs \in Seq(ConsoleFunction) /\ Len(fs) = 3 /\ 3 \in 1..6
    BY <2>1, ConsoleFunctionsGood
  <2>3. /\ Len(r) = 3 + 3 /\ r[2] = rx_confirm /\ r[3 + 3] = rx_tx_stop
        /\ \A i \in 1..3 : r[i + 2] = fs[i]
    BY <1>r, <2>1, <2>2
  <2>4. PICK a : a = <<0, 0, 0, 1, 2, 3, 3>>
    OBVIOUS
  <2>5. /\ Len(a) = 7 /\ a[1] = 0 /\ a[2] = 0
        /\ \A s \in 1..7 : a[s] \in 0..4
    BY <2>4
  <2>6. Step(r[2], a[2], a[3], 3)
    BY <2>1, <2>3, <2>4, FunctionsGive DEF Step
  <2>7. Step(r[3], a[3], a[4], 3)
    BY <2>1, <2>3, <2>4, FunctionsGive DEF Step
  <2>8. Step(r[4], a[4], a[5], 3)
    BY <2>1, <2>3, <2>4, FunctionsGive DEF Step
  <2>9. Step(r[5], a[5], a[6], 3)
    BY <2>1, <2>3, <2>4, FunctionsGive DEF Step
  <2>10. Step(r[6], a[6], a[7], 3)
    BY <2>1, <2>3, <2>4, FunctionsGive DEF Step
  <2>11. \A s \in 2..6 : Step(r[s], a[s], a[s + 1], 3)
    BY <2>6, <2>7, <2>8, <2>9, <2>10
  <2>12. Awaited(tc) = 3
    BY <1>10, RxRowLen DEF Awaited, sta_uapsd_recv_tbl
  <2>13. uapsd_console_state_tbl[tc] = r /\ Answered[tc] = a
    BY <1>10, <2>1, <2>4 DEF uapsd_console_state_tbl, Answered
  <2>14. Orderly(r, a, 3)
    BY <2>3, <2>5, <2>11 DEF Orderly
  <2> QED BY <2>12, <2>13, <2>14
<1>11. CASE tc = "M_U"
  <2>1. PICK fs, r : /\ fs = <<rx_vi_tx_vi, rx_be_tx_be, rx_vo_tx_vo,
                               rx_vo_tx_vo_tx_stop>>
                     /\ r = ConsoleRow(fs)
    OBVIOUS
  <2>2. fs \in Seq(ConsoleFunction) /\ Len(fs) = 4 /\ 4 \in 1..6
    BY <2>1, ConsoleFunctionsGood
  <2>3. /\ Len(r) = 4 + 3 /\ r[2] = rx_confirm /\ r[4 + 3] = rx_tx_stop
        /\ \A i \in 1..4 : r[i + 2] = fs[i]
    BY <1>r, <2>1, <2>2
  <2>4. PICK a : a = <<0, 0, 0, 1, 2, 3, 4, 4>>
    OBVIOUS
  <2>5. /\ Len(a) = 8 /\ a[1] = 0 /\ a[2] = 0
        /\ \A s \in 1..8 : a[s] \in 0..4
    BY <2>4
  <2>6. Step(r[2], a[2], a[3], 4)
    BY <2>1, <2>3, <2>4, FunctionsGive DEF Step
  <2>7. Step(r[3], a[3], a[4], 4)
    BY <2>1, <2>3, <2>4, FunctionsGive DEF Step
  <2>8. Step(r[4], a[4], a[5], 4)
    BY <2>1, <2>3, <2>4, FunctionsGive DEF Step
  <2>9. Step(r[5], a[5], a[6], 4)
    BY <2>1, <2>3, <2>4, FunctionsGive DEF Step
  <2>10. Step(r[6], a[6], a[7], 4)
    BY <2>1, <2>3, <2>4, FunctionsGive DEF Step
  <2>11. Step(r[7], a[7], a[8], 4)
    BY <2>1, <2>3, <2>4, FunctionsGive DEF Step
  <2>12. \A s \in 2..7 : Step(r[s], a[s], a[s + 1], 4)
    BY <2>6, <2>7, <2>8, <2>9, <2>10, <2>11
  <2>13. Awaited(tc) = 4
    BY <1>11, RxRowLen DEF Awaited, sta_uapsd_recv_tbl
  <2>14. uapsd_console_state_tbl[tc] = r /\ Answered[tc] = a
    BY <1>11, <2>1, <2>4 DEF uapsd_console_state_tbl, Answered
  <2>15. Orderly(r, a, 4)
    BY <2>3, <2>5, <2>12 DEF Orderly
  <2> QED BY <2>13, <2>14, <2>15
<1>12. CASE tc = "A_U"
  <2>1. PICK fs, r : /\ fs = <<rx_vi_tx_vi, rx_be, rx_be_tx_be, rx_be,
                               rx_vo_tx_vo, rx_vo_tx_stop>>
                     /\ r = ConsoleRow(fs)
    OBVIOUS
  <2>2. fs \in Seq(ConsoleFunction) /\ Len(fs) = 6 /\ 6 \in 1..6
    BY <2>1, ConsoleFunctionsGood
  <2>3. /\ Len(r) = 6 + 3 /\ r[2] = rx_confirm /\ r[6 + 3] = rx_tx_stop
        /\ \A i \in 1..6 : r[i + 2] = fs[i]
    BY <1>r, <2>1, <2>2
  <2>4. PICK a : a = <<0, 0, 0, 1, 1, 2, 2, 3, 3, 3>>
    OBVIOUS
  <2>5. /\ Len(a) = 10 /\ a[1] = 0 /\ a[2] = 0
        /\ \A s \in 1..10 : a[s] \in 0..4
    BY <2>4
  <2>6. Step(r[2], a[2], a[3], 3)
    BY <2>1, <2>3, <2>4, FunctionsGive DEF Step
  <2>7. Step(r[3], a[3], a[4], 3)
    BY <2>1, <2>3, <2>4, FunctionsGive DEF Step
  <2>8. Step(r[4], a[4], a[5], 3)
    BY <2>1, <2>3, <2>4, FunctionsGive DEF Step
  <2>9. Step(r[5], a[5], a[6], 3)
    BY <2>1, <2>3, <2>4, FunctionsGive DEF Step
  <2>10. Step(r[6], a[6], a[7], 3)
    BY <2>1, <2>3, <2>4, FunctionsGive DEF Step
  <2>11. Step(r[7], a[7], a[8], 3)
    BY <2>1, <2>3, <2>4, FunctionsGive DEF Step
  <2>12. Step(r[8], a[8], a[9], 3)
    BY <2>1, <2>3, <2>4, FunctionsGive DEF Step
  <2>13. Step(r[9], a[9], a[10], 3)
    BY <2>1, <2>3, <2>4, FunctionsGive DEF Step
  <2>14. \A s \in 2..9 : Step(r[s], a[s], a[s + 1], 3)
    BY <2>6, <2>7, <2>8, <2>9, <2>10, <2>11, <2>12, <2>13
  <2>15. Awaited(tc) = 3
    BY <1>12, RxRowLen DEF Awaited, sta_uapsd_recv_tbl
  <2>16. uapsd_console_state_tbl[tc] = r /\ Answered[tc] = a
    BY <1>12, <2>1, <2>4 DEF uapsd_console_state_tbl, Answered
  <2>17. Orderly(r, a, 3)
    BY <2>3, <2>5, <2>14 DEF Orderly
  <2> QED BY <2>15, <2>16, <2>17
<1>13. CASE tc = "M_L"
  <2>1. PICK fs, r : /\ fs = <<rx_be_tx_be_tx_stop>>
                     /\ r = ConsoleRow(fs)
    OBVIOUS
  <2>2. fs \in Seq(ConsoleFunction) /\ Len(fs) = 1 /\ 1 \in 1..6
    BY <2>1, ConsoleFunctionsGood
  <2>3. /\ Len(r) = 1 + 3 /\ r[2] = rx_confirm /\ r[1 + 3] = rx_tx_stop
        /\ \A i \in 1..1 : r[i + 2] = fs[i]
    BY <1>r, <2>1, <2>2
  <2>4. PICK a : a = <<0, 0, 0, 1, 1>>
    OBVIOUS
  <2>5. /\ Len(a) = 5 /\ a[1] = 0 /\ a[2] = 0
        /\ \A s \in 1..5 : a[s] \in 0..4
    BY <2>4
  <2>6. Step(r[2], a[2], a[3], 1)
    BY <2>1, <2>3, <2>4, FunctionsGive DEF Step
  <2>7. Step(r[3], a[3], a[4], 1)
    BY <2>1, <2>3, <2>4, FunctionsGive DEF Step
  <2>8. Step(r[4], a[4], a[5], 1)
    BY <2>1, <2>3, <2>4, FunctionsGive DEF Step
  <2>9. \A s \in 2..4 : Step(r[s], a[s], a[s + 1], 1)
    BY <2>6, <2>7, <2>8
  <2>10. Awaited(tc) = 1
    BY <1>13, RxRowLen DEF Awaited, sta_uapsd_recv_tbl
  <2>11. uapsd_console_state_tbl[tc] = r /\ Answered[tc] = a
    BY <1>13, <2>1, <2>4 DEF uapsd_console_state_tbl, Answered
  <2>12. Orderly(r, a, 1)
    BY <2>3, <2>5, <2>9 DEF Orderly
  <2> QED BY <2>10, <2>11, <2>12
<1>14. CASE tc = "B_K"
  <2>1. PICK fs, r : /\ fs = <<rx_vi_tx_vi, rx_be_tx_be, rx_vi_tx_stop>>
                     /\ r = ConsoleRow(fs)
    OBVIOUS
  <2>2. fs \in Seq(ConsoleFunction) /\ Len(fs) = 3 /\ 3 \in 1..6
    BY <2>1, ConsoleFunctionsGood
  <2>3. /\ Len(r) = 3 + 3 /\ r[2] = rx_confirm /\ r[3 + 3] = rx_tx_stop
        /\ \A i \in 1..3 : r[i + 2] = fs[i]
    BY <1>r, <2>1, <2>2
  <2>4. PICK a : a = <<0, 0, 0, 1, 2, 2, 2>>
    OBVIOUS
  <2>5. /\ Len(a) = 7 /\ a[1] = 0 /\ a[2] = 0
        /\ \A s \in 1..7 : a[s] \in 0..4
    BY <2>4
  <2>6. Step(r[2], a[2], a[3], 2)
    BY <2>1, <2>3, <2>4, FunctionsGive DEF Step
  <2>7. Step(r[3], a[3], a[4], 2)
    BY <2>1, <2>3, <2>4, FunctionsGive DEF Step
  <2>8. Step(r[4], a[4], a[5], 2)
    BY <2>1, <2>3, <2>4, FunctionsGive DEF Step
  <2>9. Step(r[5], a[5], a[6], 2)
    BY <2>1, <2>3, <2>4, FunctionsGive DEF Step
  <2>10. Step(r[6], a[6], a[7], 2)
    BY <2>1, <2>3, <2>4, FunctionsGive DEF Step
  <2>11. \A s \in 2..6 : Step(r[s], a[s], a[s + 1], 2)
    BY <2>6, <2>7, <2>8, <2>9, <2>10
  <2>12. Awaited(tc) = 2
    BY <1>14, RxRowLen DEF Awaited, sta_uapsd_recv_tbl
  <2>13. uapsd_console_state_tbl[tc] = r /\ Answered[tc] = a
    BY <1>14, <2>1, <2>4 DEF uapsd_console_state_tbl, Answered
  <2>14. Orderly(r, a, 2)
    BY <2>3, <2>5, <2>11 DEF Orderly
  <2> QED BY <2>12, <2>13, <2>14
<1>15. CASE tc = "M_B"
  <2>1. PICK fs, r : /\ fs = <<rx_vo, rx_vi, rx_be, rx_bk_tx_stop>>
                     /\ r = ConsoleRow(fs)
    OBVIOUS
  <2>2. fs \in Seq(ConsoleFunction) /\ Len(fs) = 4 /\ 4 \in 1..6
    BY <2>1, ConsoleFunctionsGood
  <2>3. /\ Len(r) = 4 + 3 /\ r[2] = rx_confirm /\ r[4 + 3] = rx_tx_stop
        /\ \A i \in 1..4 : r[i + 2] = fs[i]
    BY <1>r, <2>1, <2>2
  <2>4. PICK a : a = <<0, 0, 0, 0, 0, 0, 0, 0>>
    OBVIOUS
  <2>5. /\ Len(a) = 8 /\ a[1] = 0 /\ a[2] = 0
        /\ \A s \in 1..8 : a[s] \in 0..4
    BY <2>4
  <2>6. Step(r[2], a[2], a[3], 0)
    BY <2>1, <2>3, <2>4, FunctionsGive DEF Step
  <2>7. Step(r[3], a[3], a[4], 0)
    BY <2>1, <2>3, <2>4, FunctionsGive DEF Step
  <2>8. Step(r[4], a[4], a[5], 0)
    BY <2>1, <2>3, <2>4, FunctionsGive DEF Step
  <2>9. Step(r[5], a[5], a[6], 0)
    BY <2>1, <2>3, <2>4, FunctionsGive DEF Step
  <2>10. Step(r[6], a[6], a[7], 0)
    BY <2>1, <2>3, <2>4, FunctionsGive DEF Step
  <2>11. Step(r[7], a[7], a[8], 0)
    BY <2>1, <2>3, <2>4, FunctionsGive DEF Step
  <2>12. \A s \in 2..7 : Step(r[s], a[s], a[s + 1], 0)
    BY <2>6, <2>7, <2>8, <2>9, <2>10, <2>11
  <2>13. Awaited(tc) = 0
    BY <1>15, RxRowLen DEF Awaited, sta_uapsd_recv_tbl
  <2>14. uapsd_console_state_tbl[tc] = r /\ Answered[tc] = a
    BY <1>15, <2>1, <2>4 DEF uapsd_console_state_tbl, Answered
  <2>15. Orderly(r, a, 0)
    BY <2>3, <2>5, <2>12 DEF Orderly
  <2> QED BY <2>13, <2>14, <2>15
<1>16. CASE tc = "M_K"
  <2>1. PICK fs, r : /\ fs = <<rx_vi_tx_vi, rx_be_tx_be, rx_vi_tx_stop>>
                     /\ r = ConsoleRow(fs)
    OBVIOUS
  <2>2. fs \in Seq(ConsoleFunction) /\ Len(fs) = 3 /\ 3 \in 1..6
    BY <2>1, ConsoleFunctionsGood
  <2>3. /\ Len(r) = 3 + 3 /\ r[2] = rx_confirm /\ r[3 + 3] = rx_tx_stop
        /\ \A i \in 1..3 : r[i + 2] = fs[i]
    BY <1>r, <2>1, <2>2
  <2>4. PICK a : a = <<0, 0, 0, 1, 2, 2, 2>>
    OBVIOUS
  <2>5. /\ Len(a) = 7 /\ a[1] = 0 /\ a[2] = 0
        /\ \A s \in 1..7 : a[s] \in 0..4
    BY <2>4
  <2>6. Step(r[2], a[2], a[3], 2)
    BY <2>1, <2>3, <2>4, FunctionsGive DEF Step
  <2>7. Step(r[3], a[3], a[4], 2)
    BY <2>1, <2>3, <2>4, FunctionsGive DEF Step
  <2>8. Step(r[4], a[4], a[5], 2)
    BY <2>1, <2>3, <2>4, FunctionsGive DEF Step
  <2>9. Step(r[5], a[5], a[6], 2)
    BY <2>1, <2>3, <2>4, FunctionsGive DEF Step
  <2>10. Step(r[6], a[6], a[7], 2)
    BY <2>1, <2>3, <2>4, FunctionsGive DEF Step
  <2>11. \A s \in 2..6 : Step(r[s], a[s], a[s + 1], 2)
    BY <2>6, <2>7, <2>8, <2>9, <2>10
  <2>12. Awaited(tc) = 2
    BY <1>16, RxRowLen DEF Awaited, sta_uapsd_recv_tbl
  <2>13. uapsd_console_state_tbl[tc] = r /\ Answered[tc] = a
    BY <1>16, <2>1, <2>4 DEF uapsd_console_state_tbl, Answered
  <2>14. Orderly(r, a, 2)
    BY <2>3, <2>5, <2>11 DEF Orderly
  <2> QED BY <2>12, <2>13, <2>14
<1>17. CASE tc = "M_W"
  <2>1. PICK fs, r : /\ fs = <<rx_vi_tx_bcst, rx_be_tx_bcst, rx_vi_tx_stop>>
                     /\ r = ConsoleRow(fs)
    OBVIOUS
  <2>2. fs \in Seq(ConsoleFunction) /\ Len(fs) = 3 /\ 3 \in 1..6
    BY <2>1, ConsoleFunctionsGood
  <2>3. /\ Len(r) = 3 + 3 /\ r[2] = rx_confirm /\ r[3 + 3] = rx_tx_stop
        /\ \A i \in 1..3 : r[i + 2] = fs[i]
    BY <1>r, <2>1, <2>2
  <2>4. PICK a : a = <<0, 0, 0, 2, 4, 4, 4>>
    OBVIOUS
  <2>5. /\ Len(a) = 7 /\ a[1] = 0 /\ a[2] = 0
        /\ \A s \in 1..7 : a[s] \in 0..4
    BY <2>4
  <2>6. Step(r[2], a[2], a[3], 4)
    BY <2>1, <2>3, <2>4, FunctionsGive DEF Step
  <2>7. Step(r[3], a[3], a[4], 4)
    BY <2>1, <2>3, <2>4, FunctionsGive DEF Step
  <2>8. Step(r[4], a[4], a[5], 4)
    BY <2>1, <2>3, <2>4, FunctionsGive DEF Step
  <2>9. Step(r[5], a[5], a[6], 4)
    BY <2>1, <2>3, <2>4, FunctionsGive DEF Step
  <2>10. Step(r[6], a[6], a[7], 4)
    BY <2>1, <2>3, <2>4, FunctionsGive DEF Step
  <2>11. \A s \in 2..6 : Step(r[s], a[s], a[s + 1], 4)
    BY <2>6, <2>7, <2>8, <2>9, <2>10
  <2>12. Awaited(tc) = 4
    BY <1>17, RxRowLen DEF Awaited, sta_uapsd_recv_tbl
  <2>13. uapsd_console_state_tbl[tc] = r /\ Answered[tc] = a
    BY <1>17, <2>1, <2>4 DEF uapsd_console_state_tbl, Answered
  <2>14. Orderly(r, a, 4)
    BY <2>3, <2>5, <2>11 DEF Orderly
  <2> QED BY <2>12, <2>13, <2>14
<1>18. CASE tc = "B_Z"
  <2>1. PICK r : r = <<rx_hello, rx_confirm_tx_vi, rx_vo_tx_bcst_tx_stop,
                       rx_tx_stop>>
    OBVIOUS
  <2>2. PICK a : a = <<0, 0, 1, 2, 2>>
    OBVIOUS
  <2>3. Len(a) = 5 /\ a[1] = 0 /\ a[2] = 0 /\ \A s \in 1..5 : a[s] \in 0..4
    BY <2>2
  <2>4. Step(r[2], a[2], a[3], 2)
    BY <2>1, <2>2, FunctionsGive DEF Step
  <2>5. Step(r[3], a[3], a[4], 2)
    BY <2>1, <2>2, FunctionsGive DEF Step
  <2>6. Step(r[4], a[4], a[5], 2)
    BY <2>1, <2>2, FunctionsGive DEF Step
  <2>7. \A s \in 2..4 : Step(r[s], a[s], a[s + 1], 2)
    BY <2>4, <2>5, <2>6
  <2>8. Awaited(tc) = 2 /\ Len(r) = 4
    BY <1>18, <2>1, RxRowLen DEF Awaited, sta_uapsd_recv_tbl
  <2>9. uapsd_console_state_tbl[tc] = r /\ Answered[tc] = a
    BY <1>18, <2>1, <2>2 DEF uapsd_console_state_tbl, Answered
  <2>10. Orderly(r, a, 2)
    BY <2>3, <2>7, <2>8 DEF Orderly
  <2> QED BY <2>8, <2>9, <2>10
<1> QED BY <1>1, <1>2, <1>3, <1>4, <1>5, <1>6, <1>7, <1>8, <1>9, <1>10,
           <1>11, <1>12, <1>13, <1>14, <1>15, <1>16, <1>17, <1>18 DEF Tests
-----------------------------------------------------------------------------
(* What a console that is not in reset does with the packets of a station  *)
(* that sends no RESET.                                                    *)

(* What the station sends when it has no reason for a RESET.               *)
Offered ==
  {Msg("HELLO"), Msg("CONFIRM"), Msg("STOP")}
    \cup {Data(ac) : ac \in Categories}

LEMMA OfferedGood ==
  ASSUME NEW p \in Offered
  PROVE  /\ p \in Packet /\ (p.msg = "HELLO" => p = Msg("HELLO"))
         /\ p.msg \in {"HELLO", "CONFIRM", "STOP", "DEFAULT"}
         /\ p.msg = "STOP" => p = Msg("STOP")
<1>1. \A m : Msg(m).msg = m
  BY DEF Msg
<1>2. \A ac : Data(ac).msg = "DEFAULT"
  BY DEF Data
<1>3. /\ \A m \in Messages : Msg(m) \in Packet
      /\ \A ac \in Categories : Data(ac) \in Packet
  BY ControlPackets, PacketsGood DEF Messages
<1>4. CASE p \in {Msg("HELLO"), Msg("CONFIRM"), Msg("STOP")}
  <2>1. p \in Packet
    BY <1>3, <1>4 DEF Messages
  <2>2. CASE p = Msg("HELLO")
    BY <1>1, <2>1, <2>2
  <2>3. CASE p = Msg("CONFIRM")
    BY <1>1, <2>1, <2>3
  <2>4. CASE p = Msg("STOP")
    BY <1>1, <2>1, <2>4
  <2> QED BY <1>4, <2>2, <2>3, <2>4
<1>5. CASE p \in {Data(ac) : ac \in Categories}
  <2>1. p.msg = "DEFAULT" /\ p \in Packet
    BY <1>2, <1>3, <1>5
  <2> QED BY <2>1
<1> QED BY <1>4, <1>5 DEF Offered

(* The packets q: y - x of data, then STOPs if y is all there is to send.  *)
Sends(q, x, y, n) ==
  \E k \in 0..Len(q) :
    /\ y = x + k
    /\ k < Len(q) => y = n
    /\ \A i \in 1..Len(q) :
         /\ i <= k => q[i].msg = "DEFAULT"
         /\ i > k => q[i].msg = "STOP"

LEMMA NothingSent ==
  ASSUME NEW x \in Nat, NEW n
  PROVE  Sends(<<>>, x, x, n)
<1>1. PICK q : q = <<>>
  OBVIOUS
<1>2. Len(q) = 0
  BY <1>1
<1>3. Sends(q, x, x, n)
  BY <1>2 DEF Sends
<1> QED BY <1>1, <1>3

LEMMA StepSends ==
  ASSUME NEW fn, NEW x \in Nat, NEW y, NEW n, Step(fn, x, y, n)
  PROVE  /\ Sends(fn.tx, x, y, n) /\ Len(fn.tx) <= 5
         /\ fn.f \in {"answer", "stop"}
<1>1. PICK k \in 0..4, e \in 0..1 :
        Gives(fn, k, e) /\ y = x + k /\ (e = 1 => y = n)
  BY DEF Step
<1>2. PICK q : q = fn.tx
  OBVIOUS
<1>3. /\ Len(q) = k + e /\ k + e <= 5 /\ fn.f \in {"answer", "stop"}
      /\ \A i \in 1..(k + e) :
           /\ i <= k => q[i].msg = "DEFAULT"
           /\ i > k => q[i].msg = "STOP"
  BY <1>1, <1>2 DEF Gives
<1>4. k \in 0..Len(q) /\ (k < Len(q) => y = n)
  BY <1>1, <1>3
<1>5. Sends(q, x, y, n)
  BY <1>1, <1>3, <1>4 DEF Sends
<1> QED BY <1>2, <1>3, <1>5

(* The console stays calm: it goes on by one function at most, and sends   *)
(* what this function sends.                                               *)
Serves(c, h) ==
  /\ h.con.tc = c.tc /\ h.con.num_retry = c.num_retry /\ h.con.reset = c.reset
  /\ h.con.state \in {c.state, c.state + 1}
  /\ h.con.state # c.state => c.state # 0
  /\ \A i \in DOMAIN h.tx : h.tx[i].msg \in {"DEFAULT", "STOP"}
  /\ c.tc # "L_1" =>
       /\ Sends(h.tx, Answered[c.tc][c.state + 1],
                Answered[c.tc][h.con.state + 1], Awaited(c.tc))
       /\ Len(h.tx) <= 5

LEMMA AnsweredNat ==
  ASSUME NEW tc \in Tests, tc # "L_1",
         NEW s \in 0..9, s <= Len(uapsd_console_state_tbl[tc])
  PROVE  Answered[tc][s + 1] \in 0..4
<1>1. PICK a, r : a = Answered[tc] /\ r = uapsd_console_state_tbl[tc]
  OBVIOUS
<1>2. Len(a) = Len(r) + 1 /\ \A i \in 1..Len(a) : a[i] \in 0..4
  BY <1>1, TablesAgree DEF Orderly
<1>3. Len(r) \in Nat
  BY <1>1, ConsoleTableGood DEF GoodConsoleRow
<1>4. s + 1 \in 1..Len(a)
  BY <1>1, <1>2, <1>3
<1> QED BY <1>1, <1>2, <1>4

LEMMA CallServes ==
  ASSUME NEW c, ConGood(c, ConsoleRetries), NEW p \in Packet, p.msg # "HELLO",
         c.tc = "L_1" => c.state <= 2,
         c.tc = "L_1" /\ c.state = 2 => p \in {Data("VO"), Msg("STOP")},
         NEW h, h = Call(c, p)
  PROVE  Serves(c, h)
<1> DEFINE row == uapsd_console_state_tbl[c.tc]
<1>1. /\ c \in ConFields(ConsoleRetries) /\ c.tc \in Tests /\ c.state \in 0..9
      /\ c.state <= Len(row) /\ ConsoleRetries \in Nat
  BY ConsoleAssumption DEF ConGood, ConFields
<1>2. PICK n \in 2..9 : n = Len(row)
  BY <1>1, ConsoleTableGood DEF GoodConsoleRow
<1>3. /\ row[1] = rx_hello /\ row[2].f = "answer"
      /\ \A i \in 1..n : row[i] \in ConsoleFunction
  BY <1>1, <1>2, ConsoleTableGood DEF GoodConsoleRow
<1>4. c.tc # "L_1" => Answered[c.tc][c.state + 1] \in Nat
  <2> SUFFICES ASSUME c.tc # "L_1" PROVE Answered[c.tc][c.state + 1] \in Nat
    OBVIOUS
  <2>1. PICK tc \in Tests, s \in 0..9 : tc = c.tc /\ s = c.state
    BY <1>1
  <2>2. Answered[tc][s + 1] \in 0..4
    BY <1>1, <2>1, AnsweredNat
  <2> QED BY <2>1, <2>2
<1>5. /\ Advance(c).tc = c.tc /\ Advance(c).state = c.state + 1
      /\ Advance(c).num_retry = c.num_retry /\ Advance(c).reset = c.reset
      /\ Quit(c).tc = c.tc /\ Quit(c).state = c.state
      /\ Quit(c).num_retry = c.num_retry /\ Quit(c).reset = c.reset
  BY <1>1, ConsoleMoves
<1>6. ASSUME h.con = c, h.tx = <<>> PROVE Serves(c, h)
  <2>1. PICK q : q = h.tx
    OBVIOUS
  <2>2. Len(q) = 0 /\ DOMAIN q = {}
    BY <1>6, <2>1
  <2>3. c.tc # "L_1" =>
          Sends(q, Answered[c.tc][c.state + 1], Answered[c.tc][c.state + 1],
                Awaited(c.tc))
    BY <1>4, <1>6, <2>1, NothingSent
  <2> QED BY <1>6, <2>1, <2>2, <2>3 DEF Serves
<1>7. CASE c.state >= Len(row)
  <2>1. h = Done(c, <<>>)
    BY <1>7 DEF Call
  <2> QED BY <1>6, <2>1 DEF Done
<1>8. CASE ~(c.state >= Len(row))
  <2>1. PICK s \in 1..n : s = c.state + 1
    BY <1>1, <1>2, <1>8
  <2>2. PICK fn \in ConsoleFunction : fn = row[s]
    BY <1>3
  <2>3. CASE c.state = 0
    <3>1. fn.f = "hello" /\ fn.expected = Msg("HELLO")
      BY <1>3, <2>1, <2>2, <2>3 DEF rx_hello
    <3>2. p # fn.expected
      BY <3>1 DEF Msg
    <3>3. h = Done(c, <<>>)
      BY <1>8, <2>1, <2>2, <3>1, <3>2 DEF Call, Answers
    <3> QED BY <1>6, <3>3 DEF Done
  <2>4. CASE c.state # 0 /\ c.tc = "L_1"
    <3>1. \A i \in DOMAIN fn.tx : fn.tx[i].msg \in {"DEFAULT", "STOP"}
      BY <2>2 DEF ConsoleFunction, Reply
    <3>2. CASE c.state = 1
      <4>1. fn.f = "answer"
        BY <1>3, <2>1, <2>2, <3>2
      <4>2. h = Answers(c, fn, p)
        BY <1>8, <2>1, <2>2, <4>1 DEF Call
      <4>3. CASE p # fn.expected
        BY <1>6, <4>2, <4>3 DEF Answers, Done
      <4>4. CASE p = fn.expected
        <5>1. h.con = Advance(c) /\ h.tx = fn.tx
          BY <4>1, <4>2, <4>4 DEF Answers, Done
        <5> QED BY <1>1, <1>5, <2>4, <3>1, <5>1 DEF Serves
      <4> QED BY <4>3, <4>4
    <3>3. CASE c.state = 2
      <4>1. fn.f = "cyclic" /\ fn.expected = Data("VO")
        <5>1. fn.f = "cyclic"
          BY <2>1, <2>2, <2>4, <3>3, CyclicRow
        <5> QED BY <2>2, <5>1 DEF ConsoleFunction
      <4>2. h = Cycle(c, fn, p)
        BY <1>8, <2>1, <2>2, <4>1 DEF Call
      <4>3. CASE p = Data("VO")
        <5>1. h.con = c /\ h.tx = fn.tx
          BY <4>1, <4>2, <4>3 DEF Cycle, Done
        <5> QED BY <2>4, <3>1, <5>1 DEF Serves
      <4>4. CASE p = Msg("STOP") /\ p # Data("VO")
        <5>1. PICK t : t = <<Msg("STOP")>>
          OBVIOUS
        <5>2. h.con = Quit(c) /\ h.tx = t
          BY <4>1, <4>2, <4>4, <5>1 DEF Cycle, Done
        <5>3. \A i \in DOMAIN t : t[i].msg = "STOP"
          BY <5>1 DEF Msg
        <5> QED BY <1>5, <2>4, <5>2, <5>3 DEF Serves
      <4> QED BY <2>4, <3>3, <4>3, <4>4
    <3> QED BY <1>1, <2>4, <3>2, <3>3
  <2>5. CASE c.state # 0 /\ c.tc # "L_1"
    <3>1. PICK x, y : /\ x = Answered[c.tc][c.state + 1]
                      /\ y = Answered[c.tc][c.state + 1 + 1]
      OBVIOUS
    <3>2. Step(fn, x, y, Awaited(c.tc))
      <4>1. s \in 2..Len(row)
        BY <1>1, <1>2, <2>1, <2>5
      <4>2. Step(row[s], Answered[c.tc][s], Answered[c.tc][s + 1], Awaited(c.tc))
        BY <1>1, <2>5, <4>1, TablesAgree DEF Orderly
      <4> QED BY <2>1, <2>2, <3>1, <4>2
    <3>3. x \in Nat
      BY <1>4, <2>5, <3>1
    <3>4. /\ Sends(fn.tx, x, y, Awaited(c.tc)) /\ Len(fn.tx) <= 5
          /\ fn.f \in {"answer", "stop"}
      BY <3>2, <3>3, StepSends
    <3>5. \A i \in DOMAIN fn.tx : fn.tx[i].msg \in {"DEFAULT", "STOP"}
      BY <2>2 DEF ConsoleFunction, Reply
    <3>6. ASSUME h.con.tc = c.tc, h.con.num_retry = c.num_retry,
                 h.con.reset = c.reset, h.con.state = c.state + 1, h.tx = fn.tx
          PROVE  Serves(c, h)
      BY <1>1, <2>5, <3>1, <3>4, <3>5, <3>6 DEF Serves
    <3>7. CASE fn.f = "answer"
      <4>1. h = Answers(c, fn, p)
        BY <1>8, <2>1, <2>2, <3>7 DEF Call
      <4>2. CASE p # fn.expected
        BY <1>6, <4>1, <4>2 DEF Answers, Done
      <4>3. CASE p = fn.expected
        <5>1. h.con = Advance(c) /\ h.tx = fn.tx
          BY <3>7, <4>1, <4>3 DEF Answers, Done
        <5> QED BY <1>5, <3>6, <5>1
      <4> QED BY <4>2, <4>3
    <3>8. CASE fn.f = "stop"
      <4>1. h = Stops(c, fn, p)
        BY <1>8, <2>1, <2>2, <3>8 DEF Call
      <4>2. h.tx = fn.tx /\ h.con \in {Advance(c), Quit(Advance(c))}
        BY <4>1 DEF Stops, Done
      <4>3. PICK d : d = Advance(c)
        OBVIOUS
      <4>4. ConGood(d, ConsoleRetries)
        BY <1>1, <1>2, <1>8, <4>3, AdvanceGood
      <4>5. /\ Quit(d).tc = d.tc /\ Quit(d).state = d.state
            /\ Quit(d).num_retry = d.num_retry /\ Quit(d).reset = d.reset
        BY <1>1, <4>4, ConsoleMoves DEF ConGood
      <4> QED BY <1>5, <3>6, <4>2, <4>3, <4>5
    <3> QED BY <3>4, <3>7, <3>8
  <2> QED BY <2>3, <2>4, <2>5
<1> QED BY <1>7, <1>8

(* A HELLO is answered with the test case and starts the test over.        *)
LEMMA HelloServed ==
  ASSUME NEW c, ConGood(c, ConsoleRetries), NEW h,
         h = Handled(c, Msg("HELLO"))
  PROVE  /\ h.con.tc = c.tc /\ h.con.num_retry = c.num_retry /\ ~h.con.reset
         /\ h.con.state = 1 /\ h.tx = <<Msg(c.tc)>>
<1>1. PICK g, p : g = Greeted(c) /\ p = Msg("HELLO")
  OBVIOUS
<1>2. /\ c \in ConFields(ConsoleRetries) /\ c.tc \in Tests
      /\ ConsoleRetries \in Nat
  BY ConsoleAssumption DEF ConGood, ConFields
<1>3. /\ g.tc = c.tc /\ g.state = 0 /\ g.num_retry = c.num_retry /\ ~g.reset
  BY <1>1, <1>2, ConsoleMoves
<1>4. g \in ConFields(ConsoleRetries)
  BY <1>1, <1>2, GreetedGood DEF ConGood
<1>5. h = Call(g, p)
  <2>1. p.msg = "HELLO"
    BY <1>1 DEF Msg
  <2> QED BY <1>1, <2>1 DEF Handled
<1>6. PICK row : row = uapsd_console_state_tbl[g.tc]
  OBVIOUS
<1>7. row[1] = rx_hello /\ Len(row) \in 2..9
  BY <1>2, <1>3, <1>6, ConsoleTableGood DEF GoodConsoleRow
<1>8. h = Answers(g, rx_hello, p)
  <2>1. ~(g.state >= Len(row)) /\ row[g.state + 1] = rx_hello
    BY <1>3, <1>7
  <2>2. rx_hello.f = "hello"
    BY DEF rx_hello
  <2> QED BY <1>5, <1>6, <2>1, <2>2 DEF Call
<1>9. h = Done(Advance(g), <<Msg(g.tc)>>)
  BY <1>1, <1>8 DEF Answers, rx_hello
<1>10. h.con = Advance(g) /\ h.tx = <<Msg(g.tc)>>
  BY <1>9 DEF Done
<1>11. /\ Advance(g).tc = g.tc /\ Advance(g).state = g.state + 1
       /\ Advance(g).num_retry = g.num_retry /\ Advance(g).reset = g.reset
  BY <1>2, <1>4, ConsoleMoves
<1> QED BY <1>3, <1>10, <1>11

LEMMA OfferServed ==
  ASSUME NEW c, ConGood(c, ConsoleRetries), ~c.reset,
         NEW p \in Offered, p.msg # "HELLO",
         c.tc = "L_1" => c.state <= 2,
         c.tc = "L_1" /\ c.state = 2 => p \in {Data("VO"), Msg("STOP")}
  PROVE  Serves(c, Handled(c, p))
<1>1. p \in Packet /\ p.msg \in {"CONFIRM", "STOP", "DEFAULT"}
  BY OfferedGood
<1>2. Handled(c, p) = Call(c, p)
  BY <1>1 DEF Handled
<1> QED BY <1>1, <1>2, CallServes
-----------------------------------------------------------------------------
(* The inductive invariant behind NoReset.                                 *)

(* The packets the receiver has taken in as its functions demand, whether  *)
(* it hears any more, and whether it has come to its last function, which  *)
(* is content with any packet but a RESET.                                 *)
Taken == IF rx = "start" THEN 1 ELSE dut.rx_state
Deaf == rx \in {"join", "done"}
AtLast == Taken = Len(StationReceives) - 1

CalmInv ==
  /\ dut.num_retry = 0 /\ con.num_retry = 0 /\ ~con.reset
  /\ ~Has(down, "RESET")
  /\ \A i \in DOMAIN up : up[i] \in Offered

ReceiverInv ==
  /\ rx \in {"lock", "wait", "woken"} => AtLast
  /\ Taken > 0 => dut.tc = con.tc

(* Before the station knows the test one HELLO or its answer is under way. *)
GreetInv ==
  Taken = 0 /\ ~Deaf =>
    /\ con.state <= 1 /\ Len(down) <= 1
    /\ \A i \in DOMAIN down : down[i].msg = con.tc
    /\ ~con.stop => \A i \in DOMAIN up : up[i].msg = "HELLO"

(* After that the data under way are those that the console's functions    *)
(* have sent and the receiver has not taken in yet, and no STOP comes      *)
(* before them.                                                            *)
OrderInv ==
  Taken > 0 /\ ~Deaf /\ ~AtLast =>
    Sends(down, Taken - 1, Answered[con.tc][con.state + 1], Awaited(con.tc))

(* The station sends nothing before the last packet is answered and the    *)
(* answer taken in.                                                        *)
TurnInv ==
  ~con.stop =>
    /\ Len(up) <= 1
    /\ Taken > 0 => ~Has(up, "HELLO")
    /\ up # <<>> => down = <<>> \/ AtLast \/ Deaf
    /\ con.tc = "L_1" /\ con.state = 2 =>
         \A i \in DOMAIN up : up[i] \in {Data("VO"), Msg("STOP")}

PromptInv == CalmInv /\ ReceiverInv /\ GreetInv /\ OrderInv /\ TurnInv

(* What is assumed of the constants: a prompt peer, a link that neither    *)
(* loses packets nor lets them overtake each other, and room for the five  *)
(* packets of the longest answer (rx_vo_tx_all_tx_stop).                   *)
GoodLink == Prompt /\ Faults \cap {"loss", "overtake"} = {} /\ MaxQueue >= 5

LEMMA PromptNumbers ==
  ASSUME IInv
  PROVE  /\ dut \in Dut /\ dut.rx_state \in 0..5 /\ Taken \in 0..5
         /\ dut.num_retry \in Nat /\ dut.tx_state \in 0..10
         /\ dut.tc \in Tests /\ con.tc \in Tests
         /\ con.state \in 0..9
         /\ con.state <= Len(uapsd_console_state_tbl[con.tc])
         /\ Len(StationReceives) \in 2..6
         /\ dut.rx_state < Len(StationReceives)
         /\ up \in Queue /\ down \in Queue
         /\ up \in Seq(Packet) /\ down \in Seq(Packet)
<1>1. /\ dut \in Dut /\ dut.rx_state \in 0..5 /\ dut.num_retry \in Nat
      /\ dut.tx_state \in 0..10 /\ con.tc \in Tests /\ con.state \in 0..9
  BY FollowNumbers
<1>2. dut.tc \in Tests
  BY <1>1 DEF Dut
<1>3. Len(StationReceives) \in 2..6
  BY <1>2, RxTableGood DEF GoodRxRow, StationReceives
<1>4. dut.rx_state < Len(StationReceives)
  BY DEF IInv, StationInv, RowsInv
<1>5. up \in Queue /\ down \in Queue
  BY DEF IInv, LinkInv
<1>6. con.state <= Len(uapsd_console_state_tbl[con.tc])
  BY DEF IInv, ConsoleInv, ConGood
<1> QED BY <1>1, <1>2, <1>3, <1>4, <1>5, <1>6 DEF Taken, Queue

LEMMA PromptInit == Init => PromptInv
<1> SUFFICES ASSUME Init PROVE PromptInv
  OBVIOUS
<1>1. dut.rx_state = 0 /\ dut.num_retry = 0 /\ rx = "loop" /\ Taken = 0
  BY DEF Init, DutInit, Taken
<1>2. /\ con.state = 0 /\ ~con.reset /\ con.num_retry = 0
      /\ up = <<>> /\ down = <<>>
  BY DEF Init, ConsoleInit
<1>3. Len(up) = 0 /\ Len(down) = 0 /\ DOMAIN up = {} /\ DOMAIN down = {}
  BY <1>2
<1> QED BY <1>1, <1>2, <1>3 DEF PromptInv, CalmInv, ReceiverInv, GreetInv,
                                OrderInv, TurnInv, Has

(* Steps that send nothing and take nothing in.                            *)
LEMMA QuietPrompt ==
  ASSUME PromptInv, UNCHANGED <<con, up, down>>, Taken' = Taken,
         dut'.num_retry = dut.num_retry, dut'.tc = dut.tc, Deaf => Deaf',
         rx' \in {"lock", "wait", "woken"} => rx \in {"lock", "wait", "woken"}
  PROVE  PromptInv'
<1>1. AtLast' <=> AtLast
  BY DEF AtLast, StationReceives
<1> QED BY <1>1 DEF PromptInv, CalmInv, ReceiverInv, GreetInv, OrderInv, TurnInv

(* A packet of the sender's, which has waited for the last answer.         *)
LEMMA SendPrompt ==
  ASSUME GoodLink, IInv, PromptInv, Settled, NEW p \in Offered,
         up' = Sent(up, <<p>>), UNCHANGED <<con, down, rx>>,
         dut'.num_retry = dut.num_retry, dut'.tc = dut.tc,
         dut'.rx_state = dut.rx_state,
         p.msg = "HELLO" <=> dut.rx_state = 0,
         ~con.stop /\ con.tc = "L_1" /\ con.state = 2 =>
           p \in {Data("VO"), Msg("STOP")}
  PROVE  PromptInv'
<1>1. /\ dut.rx_state \in 0..5 /\ Taken \in 0..5
      /\ Len(StationReceives) \in 2..6 /\ up \in Queue
  BY PromptNumbers
<1>2. CalmInv /\ ReceiverInv /\ GreetInv /\ OrderInv /\ TurnInv
  BY DEF PromptInv
<1>3. Taken = dut.rx_state /\ Taken' = Taken /\ (AtLast' <=> AtLast)
      /\ (Deaf' <=> Deaf)
  <2>1. rx # "start"
    BY DEF Settled
  <2> QED BY <2>1 DEF Taken, AtLast, StationReceives, Deaf
<1>4. PICK ps : ps = <<p>>
  OBVIOUS
<1>5. ps \in Seq(Packet) /\ Len(ps) = 1 /\ ps[1] = p /\ p \in Packet
  BY <1>4, OfferedGood
<1>6. PICK n \in Nat, m \in Nat :
        /\ n <= m /\ m <= n + 1
        /\ DOMAIN up = 1..n /\ DOMAIN up' = 1..m
        /\ \A i \in 1..n : up'[i] = up[i]
        /\ \A i \in (n + 1)..m : up'[i] = ps[i - n]
  BY <1>1, <1>4, <1>5, SentIs
<1>7. \A i \in DOMAIN up' : up'[i] = p \/ (i \in DOMAIN up /\ up'[i] = up[i])
  <2> SUFFICES ASSUME NEW i \in 1..m
               PROVE  up'[i] = p \/ (i \in 1..n /\ up'[i] = up[i])
    BY <1>6
  <2>1. CASE i <= n
    BY <1>6, <2>1
  <2>2. CASE ~(i <= n)
    <3>1. i = n + 1 /\ i - n = 1
      BY <1>6, <2>2
    <3> QED BY <1>5, <1>6, <3>1
  <2> QED BY <2>1, <2>2
<1>8. CalmInv'
  BY <1>2, <1>7 DEF CalmInv
<1>9. ReceiverInv'
  BY <1>2, <1>3 DEF ReceiverInv
<1>10. OrderInv'
  BY <1>2, <1>3 DEF OrderInv
<1>11. ~con.stop => up = <<>> /\ Len(up') <= 1 /\ \A i \in DOMAIN up' : up'[i] = p
  <2> SUFFICES ASSUME ~con.stop
               PROVE  up = <<>> /\ Len(up') <= 1 /\ \A i \in DOMAIN up' : up'[i] = p
    OBVIOUS
  <2>1. up = <<>>
    BY DEF Settled
  <2>2. n = 0
    <3>1. DOMAIN up = {}
      BY <2>1
    <3> QED BY <1>6, <3>1
  <2>3. DOMAIN up = {} /\ m <= 1
    BY <1>6, <2>2
  <2>4. up' \in Seq(Packet)
    BY <1>1, <1>4, <1>5, SentGood DEF Queue
  <2>5. Len(up') = m
    BY <1>6, <2>4
  <2> QED BY <1>7, <2>1, <2>3, <2>5
<1>12. GreetInv'
  BY <1>2, <1>3, <1>11 DEF GreetInv
<1>13. down = <<>> \/ AtLast \/ Deaf
  <2>1. rx \in RxPlaces
    BY DEF IInv, StationInv, DutTypeOK
  <2> QED BY <1>2, <2>1 DEF Settled, RxPlaces, Deaf, ReceiverInv
<1>14. TurnInv'
  <2> SUFFICES ASSUME ~con.stop PROVE TurnInv'
    BY DEF TurnInv
  <2>1. Taken > 0 => ~Has(up', "HELLO")
    BY <1>1, <1>3, <1>11 DEF Has
  <2>2. con.tc = "L_1" /\ con.state = 2 =>
          \A i \in DOMAIN up' : up'[i] \in {Data("VO"), Msg("STOP")}
    BY <1>11
  <2> QED BY <1>3, <1>11, <1>13, <2>1, <2>2 DEF TurnInv
<1> QED BY <1>8, <1>9, <1>10, <1>12, <1>14 DEF PromptInv

(* The cyclic test: the sender's last two functions.                       *)
LEMMA CyclicTxRow ==
  ASSUME NEW r, r = sta_uapsd_tx_tbl["L_1"]
  PROVE  Len(r) = 4 /\ r[3] = tx_cyclic("VO") /\ r[4].f = "stop"
<1>1. PICK a, b, d : /\ a = <<[f |-> "start", ac |-> "BE"],
                              [f |-> "confirm", ac |-> "BE"]>>
                     /\ b = <<tx_cyclic("VO")>>
                     /\ d = <<[f |-> "stop", ac |-> "BE"]>>
  OBVIOUS
<1>2. /\ a \in Seq(TxFunctions) /\ Len(a) = 2
      /\ b \in Seq(TxFunctions) /\ Len(b) = 1 /\ b[1] = tx_cyclic("VO")
      /\ d \in Seq(TxFunctions) /\ Len(d) = 1 /\ d[1].f = "stop"
  BY <1>1 DEF TxFunctions, Categories, tx_cyclic
<1>3. PICK s : s = a \o b
  OBVIOUS
<1>4. \A s1, s2 \in Seq(TxFunctions) :
        s1 \o s2 \in Seq(TxFunctions) /\ Len(s1 \o s2) = Len(s1) + Len(s2)
  BY ConcatProperties
<1>5. \A s1, s2 \in Seq(TxFunctions) : \A i \in 1..(Len(s1) + Len(s2)) :
        (s1 \o s2)[i] = IF i <= Len(s1) THEN s1[i] ELSE s2[i - Len(s1)]
  BY ConcatProperties
<1>6. s \in Seq(TxFunctions) /\ Len(s) = Len(a) + Len(b)
  BY <1>2, <1>3, <1>4
<1>7. r = s \o d
  BY <1>1, <1>3 DEF sta_uapsd_tx_tbl, TxRow
<1>8. Len(r) = Len(s) + Len(d)
  BY <1>2, <1>4, <1>6, <1>7
<1>9. \A i \in 1..(Len(a) + Len(b)) :
        s[i] = IF i <= Len(a) THEN a[i] ELSE b[i - Len(a)]
  BY <1>2, <1>3, <1>5
<1>10. \A i \in 1..(Len(s) + Len(d)) :
         r[i] = IF i <= Len(s) THEN s[i] ELSE d[i - Len(s)]
  BY <1>2, <1>5, <1>6, <1>7
<1>11. s[3] = b[1]
  BY <1>2, <1>9
<1>12. r[3] = s[3] /\ r[4] = d[1]
  BY <1>2, <1>6, <1>10
<1> QED BY <1>2, <1>6, <1>8, <1>11, <1>12

(* What the sender runs when the console of the cyclic test has taken the  *)
(* CONFIRM.                                                                *)
LEMMA CyclicSender ==
  ASSUME IInv, FollowInv, con.tc = "L_1", con.state = 2, tx.pc = "act"
  PROVE  tx.f = tx_cyclic("VO") \/ tx.f.f = "stop"
<1>1. dut.tx_state \in 0..10 /\ dut.rx_state \in 0..5
  BY FollowNumbers
<1>2. TestInv /\ ConfirmInv
  BY DEF FollowInv
<1>3. dut.tx_state >= 2
  BY <1>1, <1>2 DEF ConfirmInv
<1>4. /\ dut.tx_state < Len(StationRow) /\ dut.rx_state > 0
      /\ tx.f = StationRow[dut.tx_state + 1]
  BY <1>1, <1>3 DEF IInv, StationInv, RowsInv
<1>5. StationRow = sta_uapsd_tx_tbl["L_1"]
  BY <1>2, <1>4 DEF TestInv, StationRow
<1>6. PICK r : r = StationRow
  OBVIOUS
<1>7. Len(r) = 4 /\ r[3] = tx_cyclic("VO") /\ r[4].f = "stop"
  BY <1>5, <1>6, CyclicTxRow
<1>8. dut.tx_state + 1 \in {3, 4}
  BY <1>1, <1>3, <1>4, <1>6, <1>7
<1> QED BY <1>4, <1>6, <1>7, <1>8

LEMMA TxPrompt ==
  ASSUME GoodLink, IInv, FollowInv, PromptInv, Sender, UNCHANGED con
  PROVE  PromptInv'
<1>1. /\ dut \in Dut /\ dut.rx_state \in 0..5 /\ dut.tx_state \in 0..10
      /\ tx.f.ac \in Categories
  BY PromptNumbers DEF IInv, StationInv, DutTypeOK, TxFunctions
<1>2. TxStep /\ (tx.pc = "act" => Settled)
  BY DEF Sender, GoodLink
<1>3. ASSUME UNCHANGED <<up, down>>, rx' = rx \/ (rx = "wait" /\ rx' = "woken"),
             dut'.tc = dut.tc, dut'.rx_state = dut.rx_state,
             dut'.num_retry = dut.num_retry
      PROVE  PromptInv'
  <2>1. Taken' = Taken
    BY <1>3 DEF Taken
  <2>2. /\ Deaf => Deaf'
        /\ rx' \in {"lock", "wait", "woken"} => rx \in {"lock", "wait", "woken"}
    BY <1>3 DEF Deaf
  <2> QED BY <1>3, <2>1, <2>2, QuietPrompt
<1>4. CASE TxLoop \/ TxSignal \/ SendFails \/ TooManyHellos \/ TxCount
  <2>1. SameCounts
    BY <1>1, <1>4 DEF SameCounts, Dut, TxLoop, TxSignal, SendFails, TxOnceFails,
                      TxManyFails, TooManyHellos, TxCount
  <2>2. UNCHANGED <<up, down>> /\ (rx' = rx \/ (rx = "wait" /\ rx' = "woken"))
    BY <1>4 DEF TxLoop, TxSignal, SendFails, TxOnceFails, TxManyFails,
                TooManyHellos, TxCount
  <2> QED BY <1>3, <2>1, <2>2 DEF SameCounts
<1>5. CASE TestReceived \/ TxManyDone
  <2>1. /\ dut' = dut \/ dut' = [dut EXCEPT !.tx_state = @ + 1]
        /\ UNCHANGED <<rx, up, down>>
    BY <1>5 DEF TestReceived, TxManyDone
  <2>2. /\ dut'.tc = dut.tc /\ dut'.rx_state = dut.rx_state
        /\ dut'.num_retry = dut.num_retry
    BY <1>1, <2>1 DEF Dut
  <2> QED BY <1>3, <2>1, <2>2
<1>6. \A m : Msg(m).msg = m /\ Data(m).msg = "DEFAULT"
  BY DEF Msg, Data
<1>7. ASSUME tx.pc = "act", tx.f.f # "start"
      PROVE  dut.rx_state > 0
  BY <1>1, <1>7 DEF IInv, StationInv, RowsInv
<1>8. CASE TxHello
  <2>1. PICK p : p = Msg("HELLO")
    OBVIOUS
  <2>2. /\ up' = Sent(up, <<p>>) /\ UNCHANGED <<rx, down>> /\ dut.rx_state = 0
        /\ dut' = [dut EXCEPT !.tx_hello_cnt = @ + 1] /\ tx.pc = "act"
    BY <1>8, <2>1 DEF TxHello, Runs
  <2>3. /\ dut'.tc = dut.tc /\ dut'.rx_state = dut.rx_state
        /\ dut'.num_retry = dut.num_retry
    BY <1>1, <2>2 DEF Dut
  <2>4. dut.tx_state = 0
    BY <1>1, <2>2 DEF IInv, StationInv, RowsInv
  <2>5. ~(con.tc = "L_1" /\ con.state = 2)
    BY <2>4 DEF FollowInv, ConfirmInv
  <2>6. p \in Offered /\ p.msg = "HELLO"
    BY <1>6, <2>1 DEF Offered
  <2> QED BY <1>2, <2>2, <2>3, <2>5, <2>6, SendPrompt
<1>9. CASE TxOnce
  <2>1. PICK p \in {Data(tx.f.ac), Msg("CONFIRM")} : up' = Sent(up, <<p>>)
    BY <1>9 DEF TxOnce
  <2>2. /\ UNCHANGED <<rx, down>> /\ tx.pc = "act"
        /\ tx.f.f \in {"confirm", "data"}
        /\ dut' = [dut EXCEPT !.tx_state = @ + 1]
    BY <1>9 DEF TxOnce, Runs
  <2>3. /\ dut'.tc = dut.tc /\ dut'.rx_state = dut.rx_state
        /\ dut'.num_retry = dut.num_retry
    BY <1>1, <2>2 DEF Dut
  <2>4. dut.rx_state # 0
    BY <1>1, <1>7, <2>2
  <2>5. ~(con.tc = "L_1" /\ con.state = 2)
    BY <2>2, CyclicSender DEF tx_cyclic
  <2>6. p \in Offered /\ p.msg # "HELLO"
    BY <1>1, <1>6, <2>1 DEF Offered
  <2> QED BY <1>2, <2>1, <2>2, <2>3, <2>4, <2>5, <2>6, SendPrompt
<1>10. CASE TxMany
  <2>1. PICK p : p = Data(tx.f.ac)
    OBVIOUS
  <2>2. /\ up' = Sent(up, <<p>>) /\ UNCHANGED <<dut, rx, down>>
        /\ tx.pc = "act" /\ tx.f.f \in {"twice", "cyclic"}
    BY <1>10, <2>1 DEF TxMany, Runs
  <2>3. dut.rx_state # 0
    BY <1>1, <1>7, <2>2
  <2>4. con.tc = "L_1" /\ con.state = 2 => p = Data("VO")
    BY <2>1, <2>2, CyclicSender DEF tx_cyclic
  <2>5. p \in Offered /\ p.msg # "HELLO"
    BY <1>1, <1>6, <2>1 DEF Offered
  <2> QED BY <1>2, <2>2, <2>3, <2>4, <2>5, SendPrompt
<1>11. CASE TxStop
  <2>1. PICK p : p = Msg("STOP")
    OBVIOUS
  <2>2. /\ up' = Sent(up, <<p>>) \/ up' = up
        /\ UNCHANGED <<rx, down>> /\ tx.pc = "act" /\ tx.f.f = "stop"
        /\ dut' = [dut EXCEPT !.tx_stop_cnt = @ + 1]
    BY <1>11, <2>1 DEF TxStop, Runs
  <2>3. /\ dut'.tc = dut.tc /\ dut'.rx_state = dut.rx_state
        /\ dut'.num_retry = dut.num_retry
    BY <1>1, <2>2 DEF Dut
  <2>4. dut.rx_state # 0
    BY <1>1, <1>7, <2>2
  <2>5. p \in Offered /\ p.msg # "HELLO"
    BY <1>6, <2>1 DEF Offered
  <2>6. CASE up' = up
    BY <1>3, <2>2, <2>3, <2>6
  <2>7. CASE up' = Sent(up, <<p>>)
    BY <1>2, <2>1, <2>2, <2>3, <2>4, <2>5, <2>7, SendPrompt
  <2> QED BY <2>2, <2>6, <2>7
<1> QED BY <1>2, <1>4, <1>5, <1>8, <1>9, <1>10, <1>11 DEF TxStep

(* The receiver's function, by what it has taken in.                       *)
LEMMA RxFunctionAt ==
  ASSUME IInv
  PROVE  /\ RxFunction = "start" => dut.rx_state = 0
         /\ RxFunction = "data" =>
              dut.rx_state > 0 /\ dut.rx_state < Len(StationReceives) - 1
         /\ RxFunction \in {"stop", "cyclic_vo"} =>
              dut.rx_state = Len(StationReceives) - 1 /\ dut.rx_state > 0
<1>1. PICK n \in 2..6, x \in 0..5 :
        n = Len(StationReceives) /\ x = dut.rx_state /\ x < n
  BY PromptNumbers
<1>2. \A i \in 1..n : /\ StationReceives[i] = "start" <=> i = 1
                      /\ StationReceives[i] \in {"start", "data"} <=> i < n
  BY <1>1, PromptNumbers, RxTableGood DEF GoodRxRow, StationReceives
<1>3. RxFunction = StationReceives[x + 1] /\ x + 1 \in 1..n
  BY <1>1 DEF RxFunction, StationReceives
<1>4. /\ RxFunction = "start" <=> x + 1 = 1
      /\ RxFunction \in {"start", "data"} <=> x + 1 < n
  BY <1>2, <1>3
<1>5. RxFunction = "start" => x = 0
  BY <1>4
<1>6. RxFunction = "data" => x > 0 /\ x < n - 1
  BY <1>4
<1>7. RxFunction \in {"stop", "cyclic_vo"} => x = n - 1 /\ x > 0
  <2> SUFFICES ASSUME RxFunction \in {"stop", "cyclic_vo"}
               PROVE  x = n - 1 /\ x > 0
    OBVIOUS
  <2>1. ~(x + 1 < n)
    BY <1>4
  <2>2. x + 1 <= n /\ n >= 2
    BY <1>1, <1>3
  <2> QED BY <1>1, <2>1, <2>2
<1> QED BY <1>1, <1>5, <1>6, <1>7

LEMMA CyclicTakes == Len(sta_uapsd_recv_tbl["L_1"]) = 2
<1>1. sta_uapsd_recv_tbl["L_1"] = <<"start", "cyclic_vo">>
  BY DEF sta_uapsd_recv_tbl
<1> QED BY <1>1

(* uapsd_rx_start                                                          *)
LEMMA RxStartPrompt ==
  ASSUME IInv, PromptInv, RxPacket, RxStart(Head(down)), UNCHANGED con
  PROVE  PromptInv'
<1>1. /\ dut \in Dut /\ dut.rx_state \in 0..5 /\ con.tc \in Tests
      /\ con.state \in 0..9 /\ down \in Seq(Packet) /\ up \in Seq(Packet)
      /\ Len(StationReceives) \in 2..6
  BY PromptNumbers
<1>2. CalmInv /\ GreetInv /\ TurnInv
  BY DEF PromptInv
<1>3. rx = "recv" /\ down # <<>> /\ down' = Tail(down) /\ RxFunction = "start"
  BY DEF RxPacket, RxStart
<1>4. dut.rx_state = 0 /\ Taken = 0 /\ ~Deaf
  BY <1>3, RxFunctionAt DEF Taken, Deaf
<1>5. PICK p : p = Head(down)
  OBVIOUS
<1>6. Len(down) = 1 /\ p = down[1] /\ Len(down') = 0
  <2>1. PICK n \in Nat : n = Len(down) /\ n <= 1
    BY <1>1, <1>2, <1>4 DEF GreetInv
  <2>2. n # 0
    BY <1>1, <1>3, <2>1
  <2>3. n = 1 /\ Len(down') = n - 1
    BY <1>1, <1>3, <2>1, <2>2
  <2> QED BY <1>1, <1>5, <2>1, <2>3
<1>7. p.msg = con.tc /\ con.state <= 1
  <2>1. 1 \in DOMAIN down
    BY <1>1, <1>6
  <2> QED BY <1>2, <1>4, <1>6, <2>1 DEF GreetInv
<1>8. dut' = [dut EXCEPT !.tc = con.tc] /\ rx' = "start" /\ up' = up
  BY <1>1, <1>5, <1>7 DEF RxStart
<1>9. /\ dut'.tc = con.tc /\ dut'.num_retry = dut.num_retry
      /\ Taken' = 1 /\ ~Deaf'
  BY <1>1, <1>8 DEF Dut, Taken, Deaf
<1>10. down' = <<>> /\ DOMAIN down' = {}
  <2>1. down' \in Seq(Packet)
    BY <1>1, <1>3
  <2> QED BY <1>6, <2>1
<1>11. ~con.stop => up = <<>>
  <2>1. PICK n \in 2..6 : n = Len(StationReceives)
    BY <1>1
  <2>2. n - 1 # 0
    OBVIOUS
  <2>3. ~AtLast
    BY <1>4, <2>1, <2>2 DEF AtLast
  <2> QED BY <1>2, <1>3, <1>4, <2>3 DEF TurnInv
<1>12. CalmInv'
  BY <1>2, <1>8, <1>9, <1>10 DEF CalmInv, Has
<1>13. ReceiverInv' /\ GreetInv'
  BY <1>8, <1>9 DEF ReceiverInv, GreetInv
<1>14. OrderInv'
  <2> SUFFICES ASSUME ~AtLast'
               PROVE  Sends(down', 0, Answered[con.tc][con.state + 1],
                            Awaited(con.tc))
    BY <1>9 DEF OrderInv
  <2>1. con.tc # "L_1"
    BY <1>9, CyclicTakes DEF AtLast, StationReceives
  <2>2. PICK a : a = Answered[con.tc]
    OBVIOUS
  <2>3. a[1] = 0 /\ a[2] = 0
    BY <1>1, <2>1, <2>2, TablesAgree DEF Orderly
  <2>4. con.state + 1 \in {1, 2}
    BY <1>1, <1>7
  <2>5. Answered[con.tc][con.state + 1] = 0
    BY <2>2, <2>3, <2>4
  <2> QED BY <1>10, <2>5, NothingSent
<1>15. TurnInv'
  <2> SUFFICES ASSUME ~con.stop PROVE TurnInv'
    BY DEF TurnInv
  <2>1. up' = <<>> /\ Len(up') = 0 /\ DOMAIN up' = {}
    BY <1>8, <1>11
  <2> QED BY <2>1 DEF TurnInv, Has
<1> QED BY <1>12, <1>13, <1>14, <1>15 DEF PromptInv

(* uapsd_rx_data: the answer under way is data.                            *)
LEMMA RxDataPrompt ==
  ASSUME IInv, PromptInv, RxPacket, RxData(Head(down)), UNCHANGED con
  PROVE  PromptInv'
<1>1. /\ dut \in Dut /\ dut.rx_state \in 0..5 /\ Taken \in 0..5
      /\ down \in Queue /\ down \in Seq(Packet) /\ up \in Seq(Packet)
      /\ Len(StationReceives) \in 2..6
  BY PromptNumbers
<1>2. CalmInv /\ ReceiverInv /\ OrderInv /\ TurnInv
  BY DEF PromptInv
<1>3. rx = "recv" /\ down # <<>> /\ down' = Tail(down) /\ RxFunction = "data"
  BY DEF RxPacket, RxData
<1>4. PICK x \in 1..5, n \in 2..6 :
        x = dut.rx_state /\ x = Taken /\ n = Len(StationReceives) /\ x < n - 1
  <2>1. dut.rx_state > 0 /\ dut.rx_state < Len(StationReceives) - 1
    BY <1>3, RxFunctionAt
  <2>2. Taken = dut.rx_state
    BY <1>3 DEF Taken
  <2>3. PICK x \in 0..5, n \in 2..6 :
          x = dut.rx_state /\ n = Len(StationReceives)
    BY <1>1
  <2>4. x \in 1..5 /\ x < n - 1
    BY <2>1, <2>3
  <2> QED BY <2>2, <2>3, <2>4
<1>5. ~AtLast /\ ~Deaf /\ Taken > 0 /\ dut.tc = con.tc
  <2>1. x # n - 1 /\ x > 0
    BY <1>4
  <2>2. Taken > 0
    BY <1>4, <2>1
  <2> QED BY <1>2, <1>3, <1>4, <2>1, <2>2 DEF AtLast, Deaf, ReceiverInv
<1>6. PICK y : y = Answered[con.tc][con.state + 1]
  OBVIOUS
<1>7. Awaited(con.tc) = n - 2
  BY <1>4, <1>5 DEF Awaited, StationReceives
<1>8. Sends(down, x - 1, y, n - 2)
  BY <1>2, <1>4, <1>5, <1>6, <1>7 DEF OrderInv
<1>9. PICK l \in Nat : l = Len(down) /\ l > 0
  BY <1>1, <1>3
<1>10. PICK k \in 0..l :
         /\ y = x - 1 + k
         /\ k < l => y = n - 2
         /\ \A i \in 1..l : /\ i <= k => down[i].msg = "DEFAULT"
                            /\ i > k => down[i].msg = "STOP"
  BY <1>8, <1>9 DEF Sends
<1>11. k > 0
  BY <1>4, <1>9, <1>10
<1>12. Head(down).msg = "DEFAULT"
  <2>1. Head(down) = down[1]
    BY <1>1, <1>3
  <2> QED BY <1>9, <1>10, <1>11, <2>1
<1>13. dut' = [dut EXCEPT !.rx_state = @ + 1] /\ rx' = "loop" /\ up' = up
  BY <1>12 DEF RxData
<1>14. /\ dut'.tc = dut.tc /\ dut'.num_retry = dut.num_retry
       /\ dut'.rx_state = x + 1 /\ Taken' = x + 1
  BY <1>1, <1>4, <1>13 DEF Dut, Taken
<1>15. \A m : Has(down', m) => Has(down, m)
  BY <1>1, <1>3, TailWeighs
<1>16. CalmInv'
  BY <1>2, <1>13, <1>14, <1>15 DEF CalmInv
<1>17. ReceiverInv' /\ GreetInv'
  BY <1>4, <1>5, <1>13, <1>14 DEF ReceiverInv, GreetInv
<1>18. Sends(down', x, y, n - 2)
  <2>1. PICK r : r = down'
    OBVIOUS
  <2>2. Len(r) = l - 1 /\ \A i \in 1..(l - 1) : r[i] = down[i + 1]
    BY <1>1, <1>3, <1>9, <2>1
  <2>3. PICK j \in 0..(l - 1) : j = k - 1
    BY <1>10, <1>11
  <2>4. y = x + j /\ (j < l - 1 => y = n - 2)
    BY <1>4, <1>10, <2>3
  <2>5. ASSUME NEW i \in 1..(l - 1)
        PROVE  /\ i <= j => r[i].msg = "DEFAULT"
               /\ i > j => r[i].msg = "STOP"
    <3>1. i + 1 \in 1..l /\ (i <= j => i + 1 <= k) /\ (i > j => i + 1 > k)
      BY <1>9, <2>3
    <3> QED BY <1>10, <2>2, <3>1
  <2>6. Sends(r, x, y, n - 2)
    BY <2>2, <2>4, <2>5 DEF Sends
  <2> QED BY <2>1, <2>6
<1>19. OrderInv'
  <2>1. Taken' - 1 = x
    BY <1>4, <1>14
  <2> QED BY <1>6, <1>7, <1>18, <2>1 DEF OrderInv
<1>20. TurnInv'
  <2> SUFFICES ASSUME ~con.stop PROVE TurnInv'
    BY DEF TurnInv
  <2>1. up = <<>>
    BY <1>2, <1>3, <1>5 DEF TurnInv
  <2>2. up' = <<>> /\ Len(up') = 0 /\ DOMAIN up' = {}
    BY <1>13, <2>1
  <2> QED BY <2>2 DEF TurnInv, Has
<1> QED BY <1>16, <1>17, <1>19, <1>20 DEF PromptInv

(* uapsd_rx_stop and uapsd_rx_cyclic_vo, the last functions.               *)
LEMMA RxStopPrompt ==
  ASSUME IInv, PromptInv, RxPacket, RxStop(Head(down)), UNCHANGED con
  PROVE  PromptInv'
<1>1. /\ dut.rx_state \in 0..5 /\ down \in Queue
      /\ Len(StationReceives) \in 2..6
  BY PromptNumbers
<1>2. CalmInv /\ ReceiverInv /\ TurnInv
  BY DEF PromptInv
<1>3. /\ rx = "recv" /\ down # <<>> /\ down' = Tail(down)
      /\ RxFunction \in {"stop", "cyclic_vo"}
      /\ rx' \in {"lock", "loop"} /\ UNCHANGED <<dut, up>>
  BY DEF RxPacket, RxStop
<1>4. Taken = dut.rx_state /\ Taken' = Taken
  BY <1>3 DEF Taken
<1>5. dut.rx_state = Len(StationReceives) - 1 /\ dut.rx_state > 0
  BY <1>3, RxFunctionAt
<1>6. AtLast /\ AtLast' /\ Taken > 0
  BY <1>3, <1>4, <1>5 DEF AtLast, StationReceives
<1>7. \A m : Has(down', m) => Has(down, m)
  BY <1>1, <1>3, TailWeighs
<1>8. CalmInv'
  BY <1>2, <1>3, <1>7 DEF CalmInv
<1>9. Taken' # 0
  <2>1. PICK x \in 0..5 : x = dut.rx_state
    BY <1>1
  <2>2. x # 0
    BY <1>5, <2>1
  <2> QED BY <1>4, <2>1, <2>2
<1>10. ReceiverInv' /\ GreetInv' /\ OrderInv'
  BY <1>2, <1>3, <1>4, <1>6, <1>9 DEF ReceiverInv, GreetInv, OrderInv
<1>11. TurnInv'
  BY <1>2, <1>3, <1>4, <1>6 DEF TurnInv
<1> QED BY <1>8, <1>10, <1>11 DEF PromptInv

LEMMA RxPacketPrompt ==
  ASSUME IInv, PromptInv, RxPacket, UNCHANGED con
  PROVE  PromptInv'
<1>1. down \in Queue
  BY PromptNumbers
<1>2. PICK p : p = Head(down)
  OBVIOUS
<1>3. /\ down # <<>>
      /\ p.msg = "RESET" \/ RxStart(p) \/ RxData(p) \/ RxStop(p)
  BY <1>2 DEF RxPacket
<1>4. p.msg # "RESET"
  <2>1. 1 \in DOMAIN down /\ down[1] = p
    BY <1>1, <1>2, <1>3 DEF Queue
  <2> QED BY <2>1 DEF Has, PromptInv, CalmInv
<1> QED BY <1>2, <1>3, <1>4, RxStartPrompt, RxDataPrompt, RxStopPrompt

LEMMA RxPrompt ==
  ASSUME IInv, PromptInv, RxStep \/ RxSpuriousWakeup \/ StopStream, UNCHANGED con
  PROVE  PromptInv'
<1>1. dut \in Dut /\ dut.rx_state \in 0..5
  BY PromptNumbers
<1>2. CASE RxLoop \/ RxTimeout \/ RxWait \/ RxWoken \/ RxJoin \/ RxSpuriousWakeup
           \/ StopStream
  <2>1. SameCounts
    BY <1>1, <1>2 DEF SameCounts, Dut, RxLoop, RxTimeout, RxWait, RxWoken, RxJoin,
                      RxSpuriousWakeup, StopStream
  <2>2. /\ UNCHANGED <<up, down>> /\ (rx' = "start" <=> rx = "start")
        /\ rx' \in {"lock", "wait", "woken"} => rx \in {"lock", "wait", "woken"}
        /\ Deaf => Deaf'
    BY <1>2 DEF RxLoop, RxTimeout, RxWait, RxWoken, RxJoin, RxSpuriousWakeup,
                StopStream, Deaf
  <2>3. Taken' = Taken
    BY <2>1, <2>2 DEF SameCounts, Taken
  <2> QED BY <2>1, <2>2, <2>3, QuietPrompt DEF SameCounts
<1>3. CASE RxStarted
  <2>1. dut.rx_state = 0 /\ rx = "start"
    BY <1>3 DEF RxStarted, IInv, StationInv, StopInv
  <2>2. /\ dut'.tc = dut.tc /\ dut'.num_retry = dut.num_retry
        /\ dut'.rx_state = 1 /\ rx' = "loop" /\ UNCHANGED <<up, down>>
    BY <1>1, <1>3, <2>1 DEF RxStarted, Dut
  <2>3. Taken' = Taken /\ (Deaf => Deaf')
    BY <2>1, <2>2 DEF Taken, Deaf
  <2> QED BY <2>2, <2>3, QuietPrompt
<1> QED BY <1>2, <1>3, RxPacketPrompt DEF RxStep

LEMMA LastTaken ==
  ASSUME NEW q \in Seq(Packet), q # <<>>, Len(q) <= 1
  PROVE  Tail(q) = <<>>
<1>1. PICK n \in Nat : n = Len(q) /\ n # 0
  OBVIOUS
<1>2. PICK r : r = Tail(q)
  OBVIOUS
<1>3. n = 1
  BY <1>1
<1>4. r \in Seq(Packet) /\ Len(r) = n - 1
  BY <1>1, <1>2
<1>5. r = <<>>
  BY <1>3, <1>4
<1> QED BY <1>2, <1>5

LEMMA SentAll ==
  ASSUME MaxQueue >= 5, NEW ps \in Seq(Packet), Len(ps) <= 5
  PROVE  Sent(<<>>, ps) = ps
<1>1. PICK n \in Nat : n = Len(ps) /\ n <= 5
  OBVIOUS
<1>2. <<>> \o ps = ps
  BY ConcatEmptySeq
<1>3. Sent(<<>>, ps) = SubSeq(ps, 1, IF n < MaxQueue THEN n ELSE MaxQueue)
  BY <1>1, <1>2 DEF Sent
<1>4. (IF n < MaxQueue THEN n ELSE MaxQueue) = n
  BY <1>1, LinkAssumption
<1>5. Sent(<<>>, ps) = SubSeq(ps, 1, Len(ps))
  BY <1>1, <1>3, <1>4
<1> QED BY <1>5, SubSeqFull

(* A HELLO comes before the station knows the test.                        *)
LEMMA HelloPrompt ==
  ASSUME GoodLink, IInv, PromptInv, ConsolePacket, Head(up).msg = "HELLO",
         UNCHANGED dutVars
  PROVE  PromptInv'
<1>1. /\ up \in Queue /\ up \in Seq(Packet) /\ down \in Queue
      /\ con.tc \in Tests /\ Taken \in 0..5 /\ Len(StationReceives) \in 2..6
  BY PromptNumbers
<1>2. CalmInv /\ ReceiverInv /\ TurnInv
  BY DEF PromptInv
<1>3. PICK p, h : p = Head(up) /\ h = Handled(con, p)
  OBVIOUS
<1>4. /\ ~con.stop /\ up # <<>> /\ up' = Tail(up)
      /\ con' = h.con /\ down' = Sent(down, h.tx)
  BY <1>3 DEF ConsolePacket
<1>5. 1 \in DOMAIN up /\ up[1] = p
  BY <1>1, <1>3, <1>4
<1>6. p = Msg("HELLO") /\ Has(up, "HELLO")
  BY <1>2, <1>3, <1>5, OfferedGood DEF CalmInv, Has
<1>7. Taken = 0 /\ ~AtLast
  <2>1. Taken = 0
    BY <1>1, <1>2, <1>4, <1>6 DEF TurnInv
  <2>2. PICK n \in 2..6 : n = Len(StationReceives)
    BY <1>1
  <2>3. n - 1 # 0
    OBVIOUS
  <2> QED BY <2>1, <2>2, <2>3 DEF AtLast
<1>8. PICK ps : ps = <<Msg(con.tc)>>
  OBVIOUS
<1>9. /\ con'.tc = con.tc /\ con'.num_retry = con.num_retry /\ ~con'.reset
      /\ con'.state = 1 /\ h.tx = ps
  BY <1>3, <1>4, <1>6, <1>8, ConsoleListens, HelloServed
<1>10. /\ ps \in Seq(Packet) /\ Len(ps) = 1 /\ DOMAIN ps = {1}
       /\ ps[1].msg = con.tc
  <2>1. Msg(con.tc) \in Packet /\ Msg(con.tc).msg = con.tc
    BY <1>1, ControlPackets DEF Msg, Messages
  <2> QED BY <1>8, <2>1
<1>11. up' = <<>> /\ Len(up') = 0 /\ DOMAIN up' = {}
  <2>1. Len(up) <= 1
    BY <1>2, <1>4 DEF TurnInv
  <2>2. up' = <<>>
    BY <1>1, <1>4, <2>1, LastTaken
  <2> QED BY <2>2
<1>12. UNCHANGED <<dut, rx>> /\ Taken' = Taken /\ (Deaf' <=> Deaf)
  BY DEF dutVars, Taken, Deaf
<1>13. CalmInv'
  <2>1. ~Has(ps, "RESET")
    BY <1>1, <1>10 DEF Has, Tests
  <2>2. ~Has(down', "RESET")
    BY <1>1, <1>2, <1>4, <1>9, <1>10, <2>1, SentHas DEF CalmInv
  <2> QED BY <1>2, <1>9, <1>11, <1>12, <2>2 DEF CalmInv
<1>14. ReceiverInv'
  BY <1>2, <1>7, <1>9, <1>12 DEF ReceiverInv, AtLast, StationReceives
<1>15. GreetInv'
  <2> SUFFICES ASSUME ~Deaf
               PROVE  Len(down') <= 1 /\ \A i \in DOMAIN down' : down'[i].msg = con.tc
    BY <1>9, <1>11, <1>12 DEF GreetInv
  <2>1. down = <<>>
    BY <1>2, <1>4, <1>7 DEF TurnInv
  <2>2. down' = Sent(<<>>, ps)
    BY <1>4, <1>9, <2>1
  <2>3. Sent(<<>>, ps) = ps
    <3>1. Len(ps) <= 5 /\ MaxQueue >= 5
      BY <1>10 DEF GoodLink
    <3> QED BY <1>10, <3>1, SentAll
  <2>4. Len(ps) <= 1 /\ \A i \in DOMAIN ps : ps[i].msg = con.tc
    BY <1>10
  <2> QED BY <2>2, <2>3, <2>4
<1>16. OrderInv' /\ TurnInv'
  BY <1>7, <1>11, <1>12 DEF OrderInv, TurnInv, Has
<1> QED BY <1>13, <1>14, <1>15, <1>16 DEF PromptInv

(* Any other packet comes after that, and is answered in turn.             *)
LEMMA OfferPrompt ==
  ASSUME GoodLink, IInv, FollowInv, PromptInv, ConsolePacket,
         Head(up).msg # "HELLO", UNCHANGED dutVars
  PROVE  PromptInv'
<1>1. /\ up \in Queue /\ up \in Seq(Packet) /\ down \in Queue
      /\ con.tc \in Tests /\ Taken \in 0..5 /\ Len(StationReceives) \in 2..6
      /\ con.state \in 0..9 /\ dut.rx_state < Len(StationReceives)
      /\ dut.rx_state \in 0..5
      /\ con.state <= Len(uapsd_console_state_tbl[con.tc])
  BY PromptNumbers
<1>2. CalmInv /\ ReceiverInv /\ GreetInv /\ OrderInv /\ TurnInv
  BY DEF PromptInv
<1>3. PICK p, h : p = Head(up) /\ h = Handled(con, p)
  OBVIOUS
<1>4. /\ ~con.stop /\ up # <<>> /\ up' = Tail(up)
      /\ con' = h.con /\ down' = Sent(down, h.tx)
  BY <1>3 DEF ConsolePacket
<1>5. 1 \in DOMAIN up /\ up[1] = p
  BY <1>1, <1>3, <1>4
<1>6. p \in Offered /\ p \in Packet /\ p.msg # "HELLO"
  BY <1>2, <1>3, <1>5, OfferedGood DEF CalmInv
<1>7. Taken # 0 \/ Deaf
  BY <1>2, <1>4, <1>5, <1>6 DEF GreetInv
<1>8. ConGood(con, ConsoleRetries)
  BY <1>4, ConsoleListens
<1>9. Serves(con, h)
  <2>1. con.tc = "L_1" => con.state <= 2
    BY DEF FollowInv, TestInv
  <2>2. con.tc = "L_1" /\ con.state = 2 => p \in {Data("VO"), Msg("STOP")}
    BY <1>2, <1>4, <1>5 DEF TurnInv
  <2> QED BY <1>2, <1>3, <1>6, <1>8, <2>1, <2>2, OfferServed DEF CalmInv
<1>10. h.tx \in Seq(Packet)
  BY <1>3, <1>6, <1>8, HandledGood DEF GoodResult
<1>11. /\ con'.tc = con.tc /\ con'.num_retry = con.num_retry
       /\ con'.reset = con.reset
       /\ \A i \in DOMAIN h.tx : h.tx[i].msg \in {"DEFAULT", "STOP"}
  BY <1>4, <1>9 DEF Serves
<1>12. up' = <<>> /\ Len(up') = 0 /\ DOMAIN up' = {}
  <2>1. Len(up) <= 1
    BY <1>2, <1>4 DEF TurnInv
  <2>2. up' = <<>>
    BY <1>1, <1>4, <2>1, LastTaken
  <2> QED BY <2>2
<1>13. UNCHANGED <<dut, rx>> /\ Taken' = Taken /\ (Deaf' <=> Deaf)
       /\ (AtLast' <=> AtLast)
  BY DEF dutVars, Taken, Deaf, AtLast, StationReceives
<1>14. CalmInv'
  <2>1. ~Has(h.tx, "RESET")
    BY <1>11 DEF Has
  <2>2. ~Has(down', "RESET")
    BY <1>1, <1>2, <1>4, <1>10, <2>1, SentHas DEF CalmInv
  <2> QED BY <1>2, <1>11, <1>12, <1>13, <2>2 DEF CalmInv
<1>15. ReceiverInv'
  BY <1>2, <1>11, <1>13 DEF ReceiverInv
<1>16. GreetInv' /\ TurnInv'
  BY <1>7, <1>12, <1>13 DEF GreetInv, TurnInv, Has
<1>17. OrderInv'
  <2> SUFFICES ASSUME Taken > 0, ~Deaf, ~AtLast
               PROVE  Sends(down', Taken - 1, Answered[con.tc][con'.state + 1],
                            Awaited(con.tc))
    BY <1>11, <1>13 DEF OrderInv
  <2>1. down = <<>>
    BY <1>2, <1>4 DEF TurnInv
  <2>2. con.tc # "L_1"
    <3> SUFFICES ASSUME con.tc = "L_1" PROVE FALSE
      OBVIOUS
    <3>1. dut.tc = "L_1"
      BY <1>2 DEF ReceiverInv
    <3>2. Len(StationReceives) = 2
      BY <3>1, CyclicTakes DEF StationReceives
    <3>3. dut.rx_state \in {0, 1}
      BY <1>1, <3>2
    <3>4. Taken = 1
      BY <3>3 DEF Taken
    <3> QED BY <3>2, <3>4 DEF AtLast
  <2>3. PICK x, y, n : /\ x = Answered[con.tc][con.state + 1]
                       /\ y = Answered[con.tc][con'.state + 1]
                       /\ n = Awaited(con.tc)
    OBVIOUS
  <2>4. Sends(down, Taken - 1, x, n)
    BY <1>2, <2>3 DEF OrderInv
  <2>5. x = Taken - 1
    <3>1. Len(down) = 0
      BY <2>1
    <3>2. PICK k \in 0..0 : x = (Taken - 1) + k
      BY <2>4, <3>1 DEF Sends
    <3> QED BY <1>1, <3>2
  <2>6. Sends(h.tx, x, y, n) /\ Len(h.tx) <= 5
    BY <1>4, <1>9, <2>2, <2>3 DEF Serves
  <2>7. down' = h.tx
    BY <1>4, <1>10, <2>1, <2>6, SentAll DEF GoodLink
  <2> QED BY <2>3, <2>5, <2>6, <2>7
<1> QED BY <1>14, <1>15, <1>16, <1>17 DEF PromptInv

LEMMA ExpiresPrompt ==
  ASSUME IInv, PromptInv, ConsoleExpires, UNCHANGED dutVars
  PROVE  PromptInv'
<1>1. con' = [con EXCEPT !.stop = TRUE, !.expired = TRUE] /\ UNCHANGED <<up, down>>
  BY DEF ConsoleExpires
<1>2. /\ con'.tc = con.tc /\ con'.state = con.state
      /\ con'.num_retry = con.num_retry /\ con'.reset = con.reset /\ con'.stop
  BY <1>1 DEF IInv, ConsoleInv, ConGood, ConFields
<1>3. UNCHANGED <<dut, rx, Taken>> /\ (Deaf' <=> Deaf) /\ (AtLast' <=> AtLast)
  BY DEF dutVars, Taken, Deaf, AtLast, StationReceives
<1> QED BY <1>1, <1>2, <1>3 DEF PromptInv, CalmInv, ReceiverInv, GreetInv,
                                OrderInv, TurnInv

LEMMA PromptNext ==
  ASSUME GoodLink
  PROVE  IInv /\ FollowInv /\ PromptInv /\ [Next]_vars => PromptInv'
<1> SUFFICES ASSUME IInv, FollowInv, PromptInv, [Next]_vars PROVE PromptInv'
  OBVIOUS
<1>1. CASE (Sender \/ RxStep \/ RxSpuriousWakeup \/ StopStream) /\ UNCHANGED con
  BY <1>1, TxPrompt, RxPrompt
<1>2. CASE (ConsolePacket \/ Expires) /\ UNCHANGED dutVars
  BY <1>2, HelloPrompt, OfferPrompt, ExpiresPrompt DEF Expires
<1>3. CASE Lose \/ Overtake
  BY <1>3 DEF GoodLink, Lose, Overtake
<1>4. CASE UNCHANGED vars
  <2>1. UNCHANGED <<dut, rx, con, up, down>> /\ Taken' = Taken /\ (Deaf => Deaf')
    BY <1>4 DEF vars, Taken, Deaf
  <2> QED BY <2>1, QuietPrompt
<1> QED BY <1>1, <1>2, <1>3, <1>4 DEF Next

(***************************************************************************)
(* With a prompt peer, on a link that keeps the order of the packets and   *)
(* loses none, nobody sends a RESET in any test: the tables of the station *)
(* (sta_uapsd_tx_tbl, sta_uapsd_recv_tbl) and of the console               *)
(* (uapsd_console_state_tbl) agree.  It holds for all limits, for every    *)
(* queue that has room for the longest answer, and also if send() fails,   *)
(* a wait ends for no reason or a command stops the stream.                *)
(***************************************************************************)
THEOREM NobodyResets == GoodLink => (Spec => []NoReset)
<1> SUFFICES ASSUME GoodLink PROVE Spec => []NoReset
  OBVIOUS
<1>1. PromptInv => NoReset
  BY DEF PromptInv, CalmInv, NoReset
<1>2. IInv /\ FollowInv /\ PromptInv /\ [Next]_vars => PromptInv'
  BY PromptNext
<1>3. Spec => []IInv /\ []FollowInv
  BY Invariant, FollowAlways
<1> QED BY <1>1, <1>2, <1>3, PromptInit, PTL DEF Spec

=============================================================================
