---------------------------- MODULE NvBindProofs ----------------------------
(***************************************************************************)
(* The properties of NvBind for any threads and any number of probes and   *)
(* removals: what the tables of the eleven layers have in common           *)
(* (TablesFit), shown for each layer, and what follows from it alone.      *)
(***************************************************************************)
EXTENDS NvBind, SequenceTheorems, TLAPS

\* What is taken before step n of a probe or a module init.
Before(n) == {x \in Things : x \notin Checks /\ \E i \in 1..(n - 1) : Takes[i] = x}

\* The memory callbacks use.
Memory == {x \in Things : x \notin Pointers /\ \E i \in DOMAIN Walk : Walk[i] = x}

\* s gives back, each thing once, what of h is neither managed nor a field of
\* what is managed; and nothing a callback may use before the entry has gone.
GivesBack(s, h) ==
    /\ s \in Seq(Things)
    /\ \A j \in 1..Len(s) : s[j] \in h /\ s[j] # "dev"
    /\ \A j, k \in 1..Len(s) : s[j] = s[k] => j = k
    /\ \A x \in h : \/ \E j \in 1..Len(s) : s[j] = x
                    \/ x \in Managed
                    \/ OnBus /\ x \in Pointers
    /\ "privptr" \in h => "dev" \in h
    /\ "entry" \in h =>
          \A j \in 1..Len(s) : s[j] \in Memory => \E k \in 1..(j - 1) : s[k] = "entry"

\* What the tables of a layer are like.
TablesFit ==
    /\ Takes \in Seq(Things \cup Checks)
    /\ Walk \in Seq(Things) /\ \A i \in 1..Len(Walk) : Walk[i] # "entry"
    /\ \A n \in 1..Len(Takes) :
          Takes[n] \notin Sure => GivesBack(Undo(Takes[n]), Before(n))
    /\ GivesBack(Gives, Before(Len(Takes) + 1))
    /\ \A n \in 1..Len(Takes) : Takes[n] = "entry" => Memory \subseteq Before(n)
    /\ OnBus => \A x \in Memory :
          Place(x) \in Nat /\ Place("entry") \in Nat /\ Place(x) < Place("entry")

-----------------------------------------------------------------------------
(* What a list has to fulfil, for the lists of the tables *)

\* Nothing is given back: only what is managed is there.
LEMMA GivesNothing ==
    ASSUME NEW h, "privptr" \in h => "dev" \in h,
           \A x \in h : x \in Managed \/ (OnBus /\ x \in Pointers)
    PROVE  GivesBack(<<>>, h)
BY EmptySeq DEF GivesBack

\* One thing, as in nv_can_netdev_register or nv_i2c_probe.
LEMMA GivesOne ==
    ASSUME NEW h, NEW a \in h, a \in Things, a # "dev", "privptr" \in h => "dev" \in h,
           \A x \in h : x = a \/ x \in Managed \/ (OnBus /\ x \in Pointers),
           "entry" \in h => a \notin Memory
    PROVE  GivesBack(<<a>>, h)
BY DEF GivesBack

\* Two things, as in the error path of demo_init of adc or nv_i2c_remove: the
\* second may be what callbacks use if the first is the entry.
LEMMA GivesTwo ==
    ASSUME NEW h, NEW a \in h, NEW b \in h, a \in Things, b \in Things, a # b,
           a # "dev", b # "dev", "privptr" \in h => "dev" \in h,
           \A x \in h : x = a \/ x = b \/ x \in Managed \/ (OnBus /\ x \in Pointers),
           "entry" \in h => a \notin Memory /\ (b \in Memory => a = "entry")
    PROVE  GivesBack(<<a, b>>, h)
BY DEF GivesBack

\* Three things, as in the module exit of adc or nv_sdio_remove.
LEMMA GivesThree ==
    ASSUME NEW h, NEW a \in h, NEW b \in h, NEW c \in h, a \in Things, b \in Things,
           c \in Things, a # b, a # c, b # c,
           a # "dev", b # "dev", c # "dev", "privptr" \in h => "dev" \in h,
           \A x \in h : x \in {a, b, c} \/ x \in Managed \/ (OnBus /\ x \in Pointers),
           "entry" \in h => /\ a \notin Memory /\ (b \in Memory => a = "entry")
                            /\ c \in Memory => a = "entry" \/ b = "entry"
    PROVE  GivesBack(<<a, b, c>>, h)
BY DEF GivesBack

\* The concatenation of two lists, element by element.
LEMMA ConcatIs ==
    ASSUME NEW S, NEW s \in Seq(S), NEW t \in Seq(S), NEW u \in Seq(S),
           Len(u) = Len(s) + Len(t), \A i \in 1..Len(s) : u[i] = s[i],
           \A i \in 1..Len(t) : u[Len(s) + i] = t[i]
    PROVE  s \o t = u
<1> DEFINE c == s \o t
<1>1. /\ c \in Seq(S) /\ Len(c) = Len(s) + Len(t)
      /\ \A i \in 1..(Len(s) + Len(t)) : c[i] = IF i <= Len(s) THEN s[i] ELSE t[i - Len(s)]
      /\ Len(s) \in Nat /\ Len(t) \in Nat
  BY ConcatProperties, LenProperties
<1> HIDE DEF c
<1>2. ASSUME NEW i \in 1..Len(c) PROVE c[i] = u[i]
  <2>1. CASE i <= Len(s)
    BY <1>1, <2>1
  <2>2. CASE Len(s) < i
    <3>1. i - Len(s) \in 1..Len(t) /\ Len(s) + (i - Len(s)) = i
      BY <1>1, <2>2
    <3>2. u[Len(s) + (i - Len(s))] = t[i - Len(s)]
      BY <3>1
    <3>3. c[i] = t[i - Len(s)]
      BY <1>1, <2>2
    <3> QED BY <3>1, <3>2, <3>3
  <2> QED BY <1>1, <2>1, <2>2
<1> QED BY <1>1, <1>2, SeqEqual DEF c

\* nv_pci_request_irq follows what nv_pci_probe and demo_probe take ...
LEMMA PciIrqTakesList ==
    PciIrqTakes = <<"dev", "drvdata", "pcim", "mwi", "master", "priv", "bar", "privptr",
                    "vectors", "entry">>
<1> DEFINE s == <<"dev", "drvdata", "pcim", "mwi", "master", "priv", "bar", "privptr">>
           t == <<"vectors", "entry">>
           u == <<"dev", "drvdata", "pcim", "mwi", "master", "priv", "bar", "privptr",
                  "vectors", "entry">>
<1>1. PciTakes = s
  BY DEF PciTakes
<1>2. /\ s \in Seq(Things) /\ t \in Seq(Things) /\ u \in Seq(Things)
      /\ Len(s) = 8 /\ Len(t) = 2 /\ Len(u) = 10
  BY DEF Things
<1>3. (\A i \in 1..8 : u[i] = s[i]) /\ u[8 + 1] = t[1] /\ u[8 + 2] = t[2]
  OBVIOUS
<1> HIDE DEF s, t, u
<1>4. /\ \A i \in 1..Len(s) : u[i] = s[i]
      /\ \A i \in 1..Len(t) : u[Len(s) + i] = t[i]
      /\ Len(u) = Len(s) + Len(t)
  BY <1>2, <1>3
<1>5. s \o t = u
  BY <1>2, <1>4, ConcatIs
<1> QED BY <1>1, <1>5 DEF PciIrqTakes, t, u

\* ... and nv_pci_free_irq precedes what nv_pci_remove gives back.
LEMMA PciIrqGivesList ==
    PciIrqGives = <<"entry", "vectors", "privptr", "master", "drvdata">>
<1> DEFINE s == <<"entry", "vectors">>
           t == <<"privptr", "master", "drvdata">>
           u == <<"entry", "vectors", "privptr", "master", "drvdata">>
<1>1. PciIrqGives = s \o t
  BY DEF PciIrqGives, PciGives
<1>2. /\ s \in Seq(Things) /\ t \in Seq(Things) /\ u \in Seq(Things)
      /\ Len(s) = 2 /\ Len(t) = 3 /\ Len(u) = 5
  BY DEF Things
<1>3. /\ u[1] = s[1] /\ u[2] = s[2]
      /\ u[2 + 1] = t[1] /\ u[2 + 2] = t[2] /\ u[2 + 3] = t[3]
  OBVIOUS
<1> HIDE DEF s, t, u
<1>4. /\ \A i \in 1..Len(s) : u[i] = s[i]
      /\ \A i \in 1..Len(t) : u[Len(s) + i] = t[i]
      /\ Len(u) = Len(s) + Len(t)
  BY <1>2, <1>3
<1>5. s \o t = u
  BY <1>2, <1>4, ConcatIs
<1> QED BY <1>1, <1>5 DEF u

-----------------------------------------------------------------------------
(* The tables of each layer fit *)

\* nv_net_device_register, dummy_init: the netdev after unregister_netdev.
LEMMA NetFits == layer = "net" => TablesFit
<1> SUFFICES ASSUME layer = "net" PROVE TablesFit
  OBVIOUS
<1>1. /\ Takes = <<"table", "netdev", "name", "entry", "slot">>
      /\ Gives = <<"slot", "entry", "netdev", "table">>
      /\ Walk = <<"netdev">>
      /\ \A x : Undo(x) = IF x = "table" THEN <<>>
                        ELSE IF x = "netdev" THEN <<"table">> ELSE <<"netdev", "table">>
      /\ OnBus = FALSE
  BY DEF Takes, Gives, Walk, Undo, OnBus, NetTakes, NetGives, NetUndo, NetWalk
<1>2. Managed = {}
  BY <1>1 DEF Managed
<1>3. Memory = {"netdev"}
  BY <1>1 DEF Memory, Things, Pointers
<1>4. /\ Before(1) = {}
      /\ Before(2) = {"table"}
      /\ Before(3) = {"table", "netdev"}
      /\ Before(4) = {"table", "netdev"}
      /\ Before(6) = {"table", "netdev", "entry", "slot"}
  BY <1>1 DEF Before, Things, Checks
<1>5. \A n \in {1, 2, 3, 4} : GivesBack(Undo(Takes[n]), Before(n))
  <2>1. GivesBack(<<>>, {})
    BY <1>1, <1>2, <1>3, GivesNothing DEF Things, Pointers
  <2>2. GivesBack(<<"table">>, {"table"})
    BY <1>1, <1>2, <1>3, GivesOne DEF Things, Pointers
  <2>3. GivesBack(<<"netdev", "table">>, {"table", "netdev"})
    BY <1>1, <1>2, <1>3, GivesTwo DEF Things, Pointers
  <2>4. /\ Undo(Takes[1]) = <<>>
        /\ Undo(Takes[2]) = <<"table">>
        /\ Undo(Takes[3]) = <<"netdev", "table">>
        /\ Undo(Takes[4]) = <<"netdev", "table">>
    BY <1>1
  <2> QED BY <1>4, <2>1, <2>2, <2>3, <2>4
<1>6. GivesBack(Gives, Before(6))
  BY <1>1, <1>2, <1>3, <1>4 DEF GivesBack, Things, Pointers
<1>7. OnBus => Memory = {}
  BY <1>1, <1>3
<1>8. \A n \in 1..Len(Takes) : Takes[n] \notin Sure => n \in {1, 2, 3, 4}
  BY <1>1 DEF Sure
<1> QED BY <1>1, <1>3, <1>4, <1>5, <1>6, <1>7, <1>8 DEF TablesFit, Things, Checks

\* nv_can_netdev_register: free_candev after unregister_candev.
LEMMA CanFits == layer = "can" => TablesFit
<1> SUFFICES ASSUME layer = "can" PROVE TablesFit
  OBVIOUS
<1>1. /\ Takes = <<"netdev", "entry">>
      /\ Gives = <<"entry", "netdev">>
      /\ Walk = <<"netdev">>
      /\ \A x : Undo(x) = IF x = "entry" THEN <<"netdev">> ELSE <<>>
      /\ OnBus = FALSE
  BY DEF Takes, Gives, Walk, Undo, OnBus, CanTakes, CanGives, CanUndo, CanWalk
<1>2. Managed = {}
  BY <1>1 DEF Managed
<1>3. Memory = {"netdev"}
  BY <1>1 DEF Memory, Things, Pointers
<1>4. /\ Before(1) = {}
      /\ Before(2) = {"netdev"}
      /\ Before(3) = {"netdev", "entry"}
  BY <1>1 DEF Before, Things, Checks
<1>5. \A n \in {1, 2} : GivesBack(Undo(Takes[n]), Before(n))
  <2>1. GivesBack(<<>>, {})
    BY <1>1, <1>2, <1>3, GivesNothing DEF Things, Pointers
  <2>2. GivesBack(<<"netdev">>, {"netdev"})
    BY <1>1, <1>2, <1>3, GivesOne DEF Things, Pointers
  <2>3. /\ Undo(Takes[1]) = <<>>
        /\ Undo(Takes[2]) = <<"netdev">>
    BY <1>1
  <2> QED BY <1>4, <2>1, <2>2, <2>3
<1>6. GivesBack(Gives, Before(3))
  BY <1>1, <1>2, <1>3, <1>4, GivesTwo DEF Things, Pointers
<1>7. OnBus => Memory = {}
  BY <1>1, <1>3
<1>8. \A n \in 1..Len(Takes) : Takes[n] \notin Sure => n \in {1, 2}
  BY <1>1 DEF Sure
<1> QED BY <1>1, <1>3, <1>4, <1>5, <1>6, <1>7, <1>8 DEF TablesFit, Things, Checks

\* nv_pwm_chip_register: pwmchip_put after pwmchip_remove.
LEMMA PwmFits == layer = "pwm" => TablesFit
<1> SUFFICES ASSUME layer = "pwm" PROVE TablesFit
  OBVIOUS
<1>1. /\ Takes = <<"chip", "entry">>
      /\ Gives = <<"entry", "chip">>
      /\ Walk = <<"chip">>
      /\ \A x : Undo(x) = IF x = "entry" THEN <<"chip">> ELSE <<>>
      /\ OnBus = FALSE
  BY DEF Takes, Gives, Walk, Undo, OnBus, PwmTakes, PwmGives, PwmUndo, PwmWalk
<1>2. Managed = {}
  BY <1>1 DEF Managed
<1>3. Memory = {"chip"}
  BY <1>1 DEF Memory, Things, Pointers
<1>4. /\ Before(1) = {}
      /\ Before(2) = {"chip"}
      /\ Before(3) = {"chip", "entry"}
  BY <1>1 DEF Before, Things, Checks
<1>5. \A n \in {1, 2} : GivesBack(Undo(Takes[n]), Before(n))
  <2>1. GivesBack(<<>>, {})
    BY <1>1, <1>2, <1>3, GivesNothing DEF Things, Pointers
  <2>2. GivesBack(<<"chip">>, {"chip"})
    BY <1>1, <1>2, <1>3, GivesOne DEF Things, Pointers
  <2>3. /\ Undo(Takes[1]) = <<>>
        /\ Undo(Takes[2]) = <<"chip">>
    BY <1>1
  <2> QED BY <1>4, <2>1, <2>2, <2>3
<1>6. GivesBack(Gives, Before(3))
  BY <1>1, <1>2, <1>3, <1>4, GivesTwo DEF Things, Pointers
<1>7. OnBus => Memory = {}
  BY <1>1, <1>3
<1>8. \A n \in 1..Len(Takes) : Takes[n] \notin Sure => n \in {1, 2}
  BY <1>1 DEF Sure
<1> QED BY <1>1, <1>3, <1>4, <1>5, <1>6, <1>7, <1>8 DEF TablesFit, Things, Checks

\* nv_adc_register: iio_device_free after iio_device_unregister.
LEMMA AdcFits == layer = "adc" => TablesFit
<1> SUFFICES ASSUME layer = "adc" PROVE TablesFit
  OBVIOUS
<1>1. /\ Takes = <<"pdev", "indio", "entry">>
      /\ Gives = <<"entry", "indio", "pdev">>
      /\ Walk = <<"indio">>
      /\ \A x : Undo(x) = IF x = "pdev" THEN <<>>
                        ELSE IF x = "indio" THEN <<"pdev">> ELSE <<"indio", "pdev">>
      /\ OnBus = FALSE
  BY DEF Takes, Gives, Walk, Undo, OnBus, AdcTakes, AdcGives, AdcUndo, AdcWalk
<1>2. Managed = {}
  BY <1>1 DEF Managed
<1>3. Memory = {"indio"}
  BY <1>1 DEF Memory, Things, Pointers
<1>4. /\ Before(1) = {}
      /\ Before(2) = {"pdev"}
      /\ Before(3) = {"pdev", "indio"}
      /\ Before(4) = {"pdev", "indio", "entry"}
  BY <1>1 DEF Before, Things, Checks
<1>5. \A n \in {1, 2, 3} : GivesBack(Undo(Takes[n]), Before(n))
  <2>1. GivesBack(<<>>, {})
    BY <1>1, <1>2, <1>3, GivesNothing DEF Things, Pointers
  <2>2. GivesBack(<<"pdev">>, {"pdev"})
    BY <1>1, <1>2, <1>3, GivesOne DEF Things, Pointers
  <2>3. GivesBack(<<"indio", "pdev">>, {"pdev", "indio"})
    BY <1>1, <1>2, <1>3, GivesTwo DEF Things, Pointers
  <2>4. /\ Undo(Takes[1]) = <<>>
        /\ Undo(Takes[2]) = <<"pdev">>
        /\ Undo(Takes[3]) = <<"indio", "pdev">>
    BY <1>1
  <2> QED BY <1>4, <2>1, <2>2, <2>3, <2>4
<1>6. GivesBack(Gives, Before(4))
  BY <1>1, <1>2, <1>3, <1>4, GivesThree DEF Things, Pointers
<1>7. OnBus => Memory = {}
  BY <1>1, <1>3
<1>8. \A n \in 1..Len(Takes) : Takes[n] \notin Sure => n \in {1, 2, 3}
  BY <1>1 DEF Sure
<1> QED BY <1>1, <1>3, <1>4, <1>5, <1>6, <1>7, <1>8 DEF TablesFit, Things, Checks

\* nv_uart_port_add: the driver after its port.
LEMMA UartFits == layer = "uart" => TablesFit
<1> SUFFICES ASSUME layer = "uart" PROVE TablesFit
  OBVIOUS
<1>1. /\ Takes = <<"uartdrv", "entry">>
      /\ Gives = <<"entry", "uartdrv">>
      /\ Walk = <<"uartdrv">>
      /\ \A x : Undo(x) = IF x = "entry" THEN <<"uartdrv">> ELSE <<>>
      /\ OnBus = FALSE
  BY DEF Takes, Gives, Walk, Undo, OnBus, UartTakes, UartGives, UartUndo, UartWalk
<1>2. Managed = {}
  BY <1>1 DEF Managed
<1>3. Memory = {"uartdrv"}
  BY <1>1 DEF Memory, Things, Pointers
<1>4. /\ Before(1) = {}
      /\ Before(2) = {"uartdrv"}
      /\ Before(3) = {"uartdrv", "entry"}
  BY <1>1 DEF Before, Things, Checks
<1>5. \A n \in {1, 2} : GivesBack(Undo(Takes[n]), Before(n))
  <2>1. GivesBack(<<>>, {})
    BY <1>1, <1>2, <1>3, GivesNothing DEF Things, Pointers
  <2>2. GivesBack(<<"uartdrv">>, {"uartdrv"})
    BY <1>1, <1>2, <1>3, GivesOne DEF Things, Pointers
  <2>3. /\ Undo(Takes[1]) = <<>>
        /\ Undo(Takes[2]) = <<"uartdrv">>
    BY <1>1
  <2> QED BY <1>4, <2>1, <2>2, <2>3
<1>6. GivesBack(Gives, Before(3))
  BY <1>1, <1>2, <1>3, <1>4, GivesTwo DEF Things, Pointers
<1>7. OnBus => Memory = {}
  BY <1>1, <1>3
<1>8. \A n \in 1..Len(Takes) : Takes[n] \notin Sure => n \in {1, 2}
  BY <1>1 DEF Sure
<1> QED BY <1>1, <1>3, <1>4, <1>5, <1>6, <1>7, <1>8 DEF TablesFit, Things, Checks

\* nv_i2c_probe: devres removes the attributes before it frees what they show.
LEMMA I2cFits == layer = "i2c" => TablesFit
<1> SUFFICES ASSUME layer = "i2c" PROVE TablesFit
  OBVIOUS
<1>1. /\ Takes = <<"dev", "drvdata", "priv", "privptr", "entry">>
      /\ Gives = <<"privptr", "drvdata">>
      /\ Walk = <<"drvdata", "dev", "privptr", "priv">>
      /\ \A x : Undo(x) = IF x = "dev" THEN <<>> ELSE <<"drvdata">>
      /\ OnBus = TRUE
  BY DEF Takes, Gives, Walk, Undo, OnBus, I2cTakes, I2cGives, I2cUndo, I2cWalk
<1>2. Managed = {"dev", "priv", "entry", "pcim", "mwi", "bar"}
  BY <1>1 DEF Managed
<1>3. Memory = {"dev", "priv"}
  BY <1>1 DEF Memory, Things, Pointers
<1>4. /\ Before(1) = {}
      /\ Before(3) = {"dev", "drvdata"}
      /\ Before(5) = {"dev", "drvdata", "priv", "privptr"}
      /\ Before(6) = {"dev", "drvdata", "priv", "privptr", "entry"}
  BY <1>1 DEF Before, Things, Checks
<1>5. \A n \in {1, 3, 5} : GivesBack(Undo(Takes[n]), Before(n))
  <2>1. GivesBack(<<>>, {})
    BY <1>1, <1>2, <1>3, GivesNothing DEF Things, Pointers
  <2>2. GivesBack(<<"drvdata">>, {"dev", "drvdata"})
    BY <1>1, <1>2, <1>3, GivesOne DEF Things, Pointers
  <2>3. GivesBack(<<"drvdata">>, {"dev", "drvdata", "priv", "privptr"})
    BY <1>1, <1>2, <1>3, GivesOne DEF Things, Pointers
  <2>4. /\ Undo(Takes[1]) = <<>>
        /\ Undo(Takes[3]) = <<"drvdata">>
        /\ Undo(Takes[5]) = <<"drvdata">>
    BY <1>1
  <2> QED BY <1>4, <2>1, <2>2, <2>3, <2>4
<1>6. GivesBack(Gives, Before(6))
  BY <1>1, <1>2, <1>3, <1>4, GivesTwo DEF Things, Pointers
<1>7. Place("dev") = 1 /\ Place("priv") = 3 /\ Place("entry") = 5
  BY <1>1 DEF Place
<1>8. \A n \in 1..Len(Takes) : Takes[n] \notin Sure => n \in {1, 3, 5}
  BY <1>1 DEF Sure
<1> QED BY <1>1, <1>3, <1>4, <1>5, <1>6, <1>7, <1>8 DEF TablesFit, Things, Checks

\* nv_spi_probe: a failing spi_setup leaves the drvdata to the driver core.
LEMMA SpiFits == layer = "spi" => TablesFit
<1> SUFFICES ASSUME layer = "spi" PROVE TablesFit
  OBVIOUS
<1>1. /\ Takes = <<"dev", "drvdata", "setup", "priv", "privptr", "entry">>
      /\ Gives = <<"privptr", "drvdata">>
      /\ Walk = <<"drvdata", "dev", "privptr", "priv">>
      /\ \A x : Undo(x) = IF x \in {"dev", "setup"} THEN <<>> ELSE <<"drvdata">>
      /\ OnBus = TRUE
  BY DEF Takes, Gives, Walk, Undo, OnBus, SpiTakes, SpiGives, SpiUndo, SpiWalk
<1>2. Managed = {"dev", "priv", "entry", "pcim", "mwi", "bar"}
  BY <1>1 DEF Managed
<1>3. Memory = {"dev", "priv"}
  BY <1>1 DEF Memory, Things, Pointers
<1>4. /\ Before(1) = {}
      /\ Before(3) = {"dev", "drvdata"}
      /\ Before(4) = {"dev", "drvdata"}
      /\ Before(6) = {"dev", "drvdata", "priv", "privptr"}
      /\ Before(7) = {"dev", "drvdata", "priv", "privptr", "entry"}
  BY <1>1 DEF Before, Things, Checks
<1>5. \A n \in {1, 3, 4, 6} : GivesBack(Undo(Takes[n]), Before(n))
  <2>1. GivesBack(<<>>, {})
    BY <1>1, <1>2, <1>3, GivesNothing DEF Things, Pointers
  <2>2. GivesBack(<<>>, {"dev", "drvdata"})
    BY <1>1, <1>2, <1>3, GivesNothing DEF Things, Pointers
  <2>3. GivesBack(<<"drvdata">>, {"dev", "drvdata"})
    BY <1>1, <1>2, <1>3, GivesOne DEF Things, Pointers
  <2>4. GivesBack(<<"drvdata">>, {"dev", "drvdata", "priv", "privptr"})
    BY <1>1, <1>2, <1>3, GivesOne DEF Things, Pointers
  <2>5. /\ Undo(Takes[1]) = <<>>
        /\ Undo(Takes[3]) = <<>>
        /\ Undo(Takes[4]) = <<"drvdata">>
        /\ Undo(Takes[6]) = <<"drvdata">>
    BY <1>1
  <2> QED BY <1>4, <2>1, <2>2, <2>3, <2>4, <2>5
<1>6. GivesBack(Gives, Before(7))
  BY <1>1, <1>2, <1>3, <1>4, GivesTwo DEF Things, Pointers
<1>7. Place("dev") = 1 /\ Place("priv") = 4 /\ Place("entry") = 6
  BY <1>1 DEF Place
<1>8. \A n \in 1..Len(Takes) : Takes[n] \notin Sure => n \in {1, 3, 4, 6}
  BY <1>1 DEF Sure
<1> QED BY <1>1, <1>3, <1>4, <1>5, <1>6, <1>7, <1>8 DEF TablesFit, Things, Checks

\* nv_sdio_probe: the function is disabled on every error path behind its
\* enabling.
LEMMA SdioFits == layer = "sdio" => TablesFit
<1> SUFFICES ASSUME layer = "sdio" PROVE TablesFit
  OBVIOUS
<1>1. /\ Takes = <<"dev", "drvdata", "func", "blksz", "priv", "privptr", "entry">>
      /\ Gives = <<"func", "privptr", "drvdata">>
      /\ Walk = <<"drvdata", "dev", "privptr", "priv">>
      /\ \A x : Undo(x) = IF x = "dev" THEN <<>>
                        ELSE IF x = "func" THEN <<"drvdata">> ELSE <<"func", "drvdata">>
      /\ OnBus = TRUE
  BY DEF Takes, Gives, Walk, Undo, OnBus, SdioTakes, SdioGives, SdioUndo, SdioWalk
<1>2. Managed = {"dev", "priv", "entry", "pcim", "mwi", "bar"}
  BY <1>1 DEF Managed
<1>3. Memory = {"dev", "priv"}
  BY <1>1 DEF Memory, Things, Pointers
<1>4. /\ Before(1) = {}
      /\ Before(3) = {"dev", "drvdata"}
      /\ Before(4) = {"dev", "drvdata", "func"}
      /\ Before(5) = {"dev", "drvdata", "func"}
      /\ Before(7) = {"dev", "drvdata", "func", "priv", "privptr"}
      /\ Before(8) = {"dev", "drvdata", "func", "priv", "privptr", "entry"}
  BY <1>1 DEF Before, Things, Checks
<1>5. \A n \in {1, 3, 4, 5, 7} : GivesBack(Undo(Takes[n]), Before(n))
  <2>1. GivesBack(<<>>, {})
    BY <1>1, <1>2, <1>3, GivesNothing DEF Things, Pointers
  <2>2. GivesBack(<<"drvdata">>, {"dev", "drvdata"})
    BY <1>1, <1>2, <1>3, GivesOne DEF Things, Pointers
  <2>3. GivesBack(<<"func", "drvdata">>, {"dev", "drvdata", "func"})
    BY <1>1, <1>2, <1>3, GivesTwo DEF Things, Pointers
  <2>4. GivesBack(<<"func", "drvdata">>, {"dev", "drvdata", "func", "priv", "privptr"})
    BY <1>1, <1>2, <1>3, GivesTwo DEF Things, Pointers
  <2>5. /\ Undo(Takes[1]) = <<>>
        /\ Undo(Takes[3]) = <<"drvdata">>
        /\ Undo(Takes[4]) = <<"func", "drvdata">>
        /\ Undo(Takes[5]) = <<"func", "drvdata">>
        /\ Undo(Takes[7]) = <<"func", "drvdata">>
    BY <1>1
  <2> QED BY <1>4, <2>1, <2>2, <2>3, <2>4, <2>5
<1>6. GivesBack(Gives, Before(8))
  BY <1>1, <1>2, <1>3, <1>4, GivesThree DEF Things, Pointers
<1>7. Place("dev") = 1 /\ Place("priv") = 5 /\ Place("entry") = 7
  BY <1>1 DEF Place
<1>8. \A n \in 1..Len(Takes) : Takes[n] \notin Sure => n \in {1, 3, 4, 5, 7}
  BY <1>1 DEF Sure
<1> QED BY <1>1, <1>3, <1>4, <1>5, <1>6, <1>7, <1>8 DEF TablesFit, Things, Checks

\* nv_pci_probe: bus mastering is the one thing the error path gives back.
LEMMA PciFits == layer = "pci" => TablesFit
<1> SUFFICES ASSUME layer = "pci" PROVE TablesFit
  OBVIOUS
<1>1. /\ Takes = <<"dev", "drvdata", "pcim", "mwi", "master", "priv", "bar", "privptr">>
      /\ Gives = <<"privptr", "master", "drvdata">>
      /\ Walk = <<>>
      /\ \A x : Undo(x) = IF x \in {"dev", "pcim", "mwi"} THEN <<>> ELSE <<"master">>
      /\ OnBus = TRUE
  BY DEF Takes, Gives, Walk, Undo, OnBus, PciTakes, PciGives, PciUndo
<1>2. Managed = {"dev", "priv", "entry", "pcim", "mwi", "bar"}
  BY <1>1 DEF Managed
<1>3. Memory = {}
  BY <1>1 DEF Memory, Things, Pointers
<1>4. /\ Before(1) = {}
      /\ Before(3) = {"dev", "drvdata"}
      /\ Before(4) = {"dev", "drvdata", "pcim"}
      /\ Before(6) = {"dev", "drvdata", "pcim", "mwi", "master"}
      /\ Before(7) = {"dev", "drvdata", "pcim", "mwi", "master", "priv"}
      /\ Before(9) = {"dev", "drvdata", "pcim", "mwi", "master", "priv", "bar", "privptr"}
  BY <1>1 DEF Before, Things, Checks
<1>5. \A n \in {1, 3, 4, 6, 7} : GivesBack(Undo(Takes[n]), Before(n))
  <2>1. GivesBack(<<>>, {})
    BY <1>1, <1>2, <1>3, GivesNothing DEF Things, Pointers
  <2>2. GivesBack(<<>>, {"dev", "drvdata"})
    BY <1>1, <1>2, <1>3, GivesNothing DEF Things, Pointers
  <2>3. GivesBack(<<>>, {"dev", "drvdata", "pcim"})
    BY <1>1, <1>2, <1>3, GivesNothing DEF Things, Pointers
  <2>4. GivesBack(<<"master">>, {"dev", "drvdata", "pcim", "mwi", "master"})
    BY <1>1, <1>2, <1>3, GivesOne DEF Things, Pointers
  <2>5. GivesBack(<<"master">>, {"dev", "drvdata", "pcim", "mwi", "master", "priv"})
    BY <1>1, <1>2, <1>3, GivesOne DEF Things, Pointers
  <2>6. /\ Undo(Takes[1]) = <<>>
        /\ Undo(Takes[3]) = <<>>
        /\ Undo(Takes[4]) = <<>>
        /\ Undo(Takes[6]) = <<"master">>
        /\ Undo(Takes[7]) = <<"master">>
    BY <1>1
  <2> QED BY <1>4, <2>1, <2>2, <2>3, <2>4, <2>5, <2>6
<1>6. GivesBack(Gives, Before(9))
  <2> DEFINE h == {"dev", "drvdata", "pcim", "mwi", "master", "priv", "bar", "privptr"}
  <2>1. /\ "drvdata" \in h /\ "master" \in h /\ "privptr" \in h /\ "dev" \in h
        /\ "entry" \notin h
        /\ \A x \in h : \/ x \in {"privptr", "master", "drvdata"}
                        \/ x \in Managed \/ (OnBus /\ x \in Pointers)
    BY <1>2
  <2> HIDE DEF h
  <2>2. GivesBack(<<"privptr", "master", "drvdata">>, h)
    BY <2>1, GivesThree DEF Things
  <2> QED BY <1>1, <1>4, <2>2 DEF h
<1>7. OnBus => Memory = {}
  BY <1>1, <1>3
<1>8. \A n \in 1..Len(Takes) : Takes[n] \notin Sure => n \in {1, 3, 4, 6, 7}
  BY <1>1 DEF Sure
<1> QED BY <1>1, <1>3, <1>4, <1>5, <1>6, <1>7, <1>8 DEF TablesFit, Things, Checks

\* nv_pci_request_irq: nv_pci_remove frees the interrupt first.
LEMMA PciIrqFits == layer = "pciirq" => TablesFit
<1> SUFFICES ASSUME layer = "pciirq" PROVE TablesFit
  OBVIOUS
<1>1. /\ Takes = <<"dev", "drvdata", "pcim", "mwi", "master", "priv", "bar", "privptr",
                   "vectors", "entry">>
      /\ Gives = <<"entry", "vectors", "privptr", "master", "drvdata">>
      /\ Walk = <<"dev", "privptr", "priv", "bar">>
      /\ \A x : Undo(x) = IF x \in {"dev", "pcim",
                                    "mwi"} THEN <<>> ELSE IF x = "entry" THEN <<"vectors",
                                                  "master">> ELSE <<"master">>
      /\ OnBus = TRUE
  BY PciIrqTakesList, PciIrqGivesList DEF Takes, Gives, Walk, Undo, OnBus, PciIrqUndo,
     PciIrqWalk, PciUndo
<1>2. Managed = {"dev", "priv", "entry", "pcim", "mwi", "bar"}
  BY <1>1 DEF Managed
<1>3. Memory = {"dev", "priv", "bar"}
  BY <1>1 DEF Memory, Things, Pointers
<1>4. /\ Before(1) = {}
      /\ Before(3) = {"dev", "drvdata"}
      /\ Before(4) = {"dev", "drvdata", "pcim"}
      /\ Before(6) = {"dev", "drvdata", "pcim", "mwi", "master"}
      /\ Before(7) = {"dev", "drvdata", "pcim", "mwi", "master", "priv"}
      /\ Before(9) = {"dev", "drvdata", "pcim", "mwi", "master", "priv", "bar", "privptr"}
      /\ Before(10) = {"dev", "drvdata", "pcim", "mwi", "master", "priv", "bar",
                       "privptr", "vectors"}
      /\ Before(11) = {"dev", "drvdata", "pcim", "mwi", "master", "priv", "bar",
                       "privptr", "vectors", "entry"}
  BY <1>1 DEF Before, Things, Checks
<1>5. \A n \in {1, 3, 4, 6, 7, 9, 10} : GivesBack(Undo(Takes[n]), Before(n))
  <2>1. GivesBack(<<>>, {})
    BY <1>1, <1>2, <1>3, GivesNothing DEF Things, Pointers
  <2>2. GivesBack(<<>>, {"dev", "drvdata"})
    BY <1>1, <1>2, <1>3, GivesNothing DEF Things, Pointers
  <2>3. GivesBack(<<>>, {"dev", "drvdata", "pcim"})
    BY <1>1, <1>2, <1>3, GivesNothing DEF Things, Pointers
  <2>4. GivesBack(<<"master">>, {"dev", "drvdata", "pcim", "mwi", "master"})
    BY <1>1, <1>2, <1>3, GivesOne DEF Things, Pointers
  <2>5. GivesBack(<<"master">>, {"dev", "drvdata", "pcim", "mwi", "master", "priv"})
    BY <1>1, <1>2, <1>3, GivesOne DEF Things, Pointers
  <2>6. GivesBack(<<"master">>, {"dev", "drvdata", "pcim", "mwi", "master", "priv", "bar",
                    "privptr"})
    BY <1>1, <1>2, <1>3, GivesOne DEF Things, Pointers
  <2>7. GivesBack(<<"vectors", "master">>, {"dev", "drvdata", "pcim", "mwi", "master",
                    "priv", "bar", "privptr", "vectors"})
    <3> DEFINE h == {"dev", "drvdata", "pcim", "mwi", "master", "priv", "bar", "privptr",
                     "vectors"}
    <3>1. /\ "vectors" \in h /\ "master" \in h /\ "dev" \in h /\ "entry" \notin h
          /\ \A x \in h : \/ x = "vectors" \/ x = "master"
                          \/ x \in Managed \/ (OnBus /\ x \in Pointers)
      BY <1>1, <1>2 DEF Pointers
    <3> HIDE DEF h
    <3>2. GivesBack(<<"vectors", "master">>, h)
      BY <3>1, GivesTwo DEF Things
    <3> QED BY <3>2 DEF h
  <2>8. /\ Undo(Takes[1]) = <<>>
        /\ Undo(Takes[3]) = <<>>
        /\ Undo(Takes[4]) = <<>>
        /\ Undo(Takes[6]) = <<"master">>
        /\ Undo(Takes[7]) = <<"master">>
        /\ Undo(Takes[9]) = <<"master">>
        /\ Undo(Takes[10]) = <<"vectors", "master">>
    BY <1>1
  <2>9. /\ GivesBack(Undo(Takes[1]), Before(1))
        /\ GivesBack(Undo(Takes[3]), Before(3))
        /\ GivesBack(Undo(Takes[4]), Before(4))
    BY <1>4, <2>1, <2>2, <2>3, <2>8
  <2>10. /\ GivesBack(Undo(Takes[6]), Before(6))
         /\ GivesBack(Undo(Takes[7]), Before(7))
    BY <1>4, <2>4, <2>5, <2>8
  <2>11. /\ GivesBack(Undo(Takes[9]), Before(9))
         /\ GivesBack(Undo(Takes[10]), Before(10))
    BY <1>4, <2>6, <2>7, <2>8
  <2> QED BY <2>9, <2>10, <2>11
<1>6. GivesBack(Gives, Before(11))
  BY <1>1, <1>2, <1>3, <1>4 DEF GivesBack, Things, Pointers
<1>7. Place("dev") = 1 /\ Place("priv") = 6 /\ Place("bar") = 7 /\ Place("entry") = 10
  BY <1>1 DEF Place
<1>8. \A n \in 1..Len(Takes) : Takes[n] \notin Sure => n \in {1, 3, 4, 6, 7, 9, 10}
  BY <1>1 DEF Sure
<1> QED BY <1>1, <1>3, <1>4, <1>5, <1>6, <1>7, <1>8 DEF TablesFit, Things, Checks

\* nv_usb_probe: autosuspend is disabled on every error path behind its enabling.
LEMMA UsbFits == layer = "usb" => TablesFit
<1> SUFFICES ASSUME layer = "usb" PROVE TablesFit
  OBVIOUS
<1>1. /\ Takes = <<"dev", "drvdata", "alt", "pm", "priv", "privptr">>
      /\ Gives = <<"privptr", "pm", "drvdata">>
      /\ Walk = <<>>
      /\ \A x : Undo(x) = IF x \in {"dev", "alt"} THEN <<>> ELSE <<"pm", "drvdata">>
      /\ OnBus = TRUE
  BY DEF Takes, Gives, Walk, Undo, OnBus, UsbTakes, UsbGives, UsbUndo
<1>2. Managed = {"dev", "priv", "entry", "pcim", "mwi", "bar"}
  BY <1>1 DEF Managed
<1>3. Memory = {}
  BY <1>1 DEF Memory, Things, Pointers
<1>4. /\ Before(1) = {}
      /\ Before(3) = {"dev", "drvdata"}
      /\ Before(5) = {"dev", "drvdata", "pm"}
      /\ Before(7) = {"dev", "drvdata", "pm", "priv", "privptr"}
  BY <1>1 DEF Before, Things, Checks
<1>5. \A n \in {1, 3, 5} : GivesBack(Undo(Takes[n]), Before(n))
  <2>1. GivesBack(<<>>, {})
    BY <1>1, <1>2, <1>3, GivesNothing DEF Things, Pointers
  <2>2. GivesBack(<<>>, {"dev", "drvdata"})
    BY <1>1, <1>2, <1>3, GivesNothing DEF Things, Pointers
  <2>3. GivesBack(<<"pm", "drvdata">>, {"dev", "drvdata", "pm"})
    BY <1>1, <1>2, <1>3, GivesTwo DEF Things, Pointers
  <2>4. /\ Undo(Takes[1]) = <<>>
        /\ Undo(Takes[3]) = <<>>
        /\ Undo(Takes[5]) = <<"pm", "drvdata">>
    BY <1>1
  <2> QED BY <1>4, <2>1, <2>2, <2>3, <2>4
<1>6. GivesBack(Gives, Before(7))
  BY <1>1, <1>2, <1>3, <1>4, GivesThree DEF Things, Pointers
<1>7. OnBus => Memory = {}
  BY <1>1, <1>3
<1>8. \A n \in 1..Len(Takes) : Takes[n] \notin Sure => n \in {1, 3, 5}
  BY <1>1 DEF Sure
<1> QED BY <1>1, <1>3, <1>4, <1>5, <1>6, <1>7, <1>8 DEF TablesFit, Things, Checks

\* Whichever example module is loaded.
LEMMA TablesAllFit == layer \in Layers => TablesFit
BY NetFits, CanFits, PwmFits, AdcFits, UartFits, I2cFits, SpiFits, SdioFits, PciFits,
   PciIrqFits, UsbFits DEF Layers

-----------------------------------------------------------------------------
(* The invariant *)

\* What is held, in each phase of a probe, a failed probe or a removal.
PhaseHolds ==
    /\ at = "unbound" => held = {}
    /\ at = "taking" => next \in 1..(Len(Takes) + 1) /\ held = Before(next)
    /\ at = "bound" => held = Before(Len(Takes) + 1)
    /\ at = "giving" => GivesBack(todo, held)
    /\ at = "devres" => GivesBack(<<>>, held)

\* Callbacks are in an entry, an entry that closes is one that is there, and
\* what its callbacks use is there with it.
EntryHolds ==
    /\ closing => at \in {"giving", "devres"} /\ "entry" \in held
    /\ "entry" \in held => Memory \subseteq held
    /\ Inside # {} => "entry" \in held

BindInv == TypeOK /\ PhaseHolds /\ EntryHolds

\* The tables are the layer's, and the module of one layer is loaded.
LEMMA TablesStay ==
    ASSUME layer' = layer
    PROVE  /\ Takes' = Takes /\ Managed' = Managed /\ Memory' = Memory /\ OnBus' = OnBus
           /\ \A n : Before(n)' = Before(n)
<1>1. Takes' = Takes /\ Walk' = Walk /\ OnBus' = OnBus
  BY DEF Takes, Walk, OnBus
<1>2. \A n : Before(n)' = Before(n)
  BY <1>1 DEF Before
<1> QED BY <1>1, <1>2 DEF Managed, Memory

\* The first of a list goes: the rest is a list for what is left.
LEMMA HeadGoes ==
    ASSUME NEW s, NEW h, GivesBack(s, h), s # <<>>, h \subseteq Things
    PROVE  /\ Head(s) \in h /\ Head(s) # "dev"
           /\ GivesBack(Tail(s), h \ {Head(s)})
           /\ "entry" \in h /\ Head(s) # "entry" => Head(s) \notin Memory
<1> DEFINE r == Tail(s)
           g == h \ {Head(s)}
<1>1. /\ s \in Seq(Things) /\ Len(s) \in Nat /\ Len(s) >= 1 /\ Head(s) = s[1]
      /\ r \in Seq(Things) /\ Len(r) = Len(s) - 1
      /\ \A j \in 1..Len(r) : r[j] = s[j + 1]
  <2>1. s \in Seq(Things)
    BY DEF GivesBack
  <2>2. Len(s) \in Nat /\ Len(s) >= 1
    BY <2>1, LenProperties, EmptySeq
  <2> QED BY <2>1, <2>2, HeadTailProperties
<1> HIDE DEF r
<1>2. Head(s) \in h /\ Head(s) # "dev"
  BY <1>1 DEF GivesBack
<1>3. "entry" \in h /\ Head(s) # "entry" => Head(s) \notin Memory
  <2>1. 1 \in 1..Len(s)
    BY <1>1
  <2>2. \A k \in 1..(1 - 1) : FALSE
    OBVIOUS
  <2> QED BY <1>1, <2>1, <2>2 DEF GivesBack
<1>4. \A j \in 1..Len(r) : j + 1 \in 1..Len(s) /\ j + 1 # 1
  BY <1>1
<1>5. \A j \in 1..Len(r) : r[j] \in g /\ r[j] # "dev"
  <2>1. ASSUME NEW j \in 1..Len(r) PROVE r[j] \in g /\ r[j] # "dev"
    <3>1. j + 1 \in 1..Len(s) /\ 1 \in 1..Len(s) /\ j + 1 # 1 /\ r[j] = s[j + 1]
      BY <1>1, <1>4
    <3>2. s[j + 1] # s[1] /\ s[j + 1] \in h /\ s[j + 1] # "dev"
      BY <3>1 DEF GivesBack
    <3> QED BY <1>1, <3>1, <3>2
  <2> QED BY <2>1
<1>6. \A j, k \in 1..Len(r) : r[j] = r[k] => j = k
  <2>1. ASSUME NEW j \in 1..Len(r), NEW k \in 1..Len(r), r[j] = r[k] PROVE j = k
    <3>1. s[j + 1] = s[k + 1] /\ j + 1 \in 1..Len(s) /\ k + 1 \in 1..Len(s)
      BY <1>1, <1>4, <2>1
    <3>2. j + 1 = k + 1
      BY <3>1 DEF GivesBack
    <3> QED BY <3>2
  <2> QED BY <2>1
<1>7. \A x \in g : (\E j \in 1..Len(r) : r[j] = x) \/ x \in Managed \/ (OnBus /\ x \in Pointers)
  <2>1. ASSUME NEW x \in g, NEW j \in 1..Len(s), s[j] = x
        PROVE  \E k \in 1..Len(r) : r[k] = x
    <3>1. j # 1
      BY <1>1, <2>1
    <3>2. j - 1 \in 1..Len(r) /\ (j - 1) + 1 = j
      BY <1>1, <3>1
    <3>3. r[j - 1] = s[(j - 1) + 1]
      BY <1>1, <3>2
    <3> QED BY <2>1, <3>2, <3>3
  <2> QED BY <2>1 DEF GivesBack
<1>8. "privptr" \in g => "dev" \in g
  BY <1>2 DEF GivesBack
<1>9. "entry" \in g =>
        \A j \in 1..Len(r) : r[j] \in Memory => \E k \in 1..(j - 1) : r[k] = "entry"
  <2>1. ASSUME "entry" \in g, NEW j \in 1..Len(r), r[j] \in Memory
        PROVE  \E k \in 1..(j - 1) : r[k] = "entry"
    <3>1. j + 1 \in 1..Len(s) /\ s[j + 1] \in Memory /\ "entry" \in h /\ "entry" # s[1]
      BY <1>1, <1>4, <2>1
    <3>2. PICK k \in 1..((j + 1) - 1) : s[k] = "entry"
      BY <3>1 DEF GivesBack
    <3>3. k # 1
      BY <3>1, <3>2
    <3>4. k - 1 \in 1..(j - 1) /\ k - 1 \in 1..Len(r) /\ (k - 1) + 1 = k
      BY <1>1, <3>2, <3>3
    <3>5. r[k - 1] = s[(k - 1) + 1]
      BY <1>1, <3>4
    <3> QED BY <3>2, <3>4, <3>5
  <2> QED BY <2>1
<1>10. GivesBack(r, g)
  BY <1>1, <1>5, <1>6, <1>7, <1>8, <1>9 DEF GivesBack
<1> QED BY <1>2, <1>3, <1>10 DEF r

\* What the driver has taken after one more step of its table.
LEMMA OneMore ==
    ASSUME TablesFit, NEW n \in 1..Len(Takes)
    PROVE  Before(n + 1) = IF Takes[n] \in Checks THEN Before(n) ELSE Before(n) \cup {Takes[n]}
<1>1. Takes[n] \in Things \cup Checks
  BY ElementOfSeq DEF TablesFit
<1>2. 1..((n + 1) - 1) = (1..(n - 1)) \cup {n}
  OBVIOUS
<1> QED BY <1>1, <1>2 DEF Before

-----------------------------------------------------------------------------
(* Every step keeps the invariant *)

\* Before the first probe nothing is taken.
LEMMA BindInit == Init => BindInv
<1> SUFFICES ASSUME Init PROVE BindInv
  OBVIOUS
<1>1. TypeOK
  BY EmptySeq DEF Init, TypeOK
<1>2. PhaseHolds
  BY DEF Init, PhaseHolds
<1>3. EntryHolds
  BY DEF Init, EntryHolds, Inside
<1> QED BY <1>1, <1>2, <1>3 DEF BindInv

\* Steps that leave what is held, the entry and the callbacks alone.
LEMMA EntryStays ==
    ASSUME BindInv, UNCHANGED <<layer, held, pc>>, closing' = closing,
           closing => at' \in {"giving", "devres"}
    PROVE  EntryHolds'
BY TablesStay DEF BindInv, EntryHolds, Inside

\* really_probe and do_init_module begin.
LEMMA ProbeKeeps == ASSUME BindInv, Probe PROVE BindInv'
<1>1. TablesFit /\ Takes' = Takes /\ \A n : Before(n)' = Before(n)
  BY TablesAllFit, TablesStay DEF BindInv, TypeOK, Probe
<1>2. Before(1) = {}
  BY DEF Before
<1>3. 1 \in 1..(Len(Takes) + 1)
  BY <1>1, LenProperties DEF TablesFit
<1>4. TypeOK'
  BY DEF Probe, BindInv, TypeOK
<1>5. held = {} /\ UNCHANGED <<layer, held, closing, pc>> /\ at' = "taking" /\ next' = 1
  BY DEF Probe, BindInv, PhaseHolds
<1>6. PhaseHolds'
  BY <1>1, <1>2, <1>3, <1>5 DEF PhaseHolds
<1>7. EntryHolds'
  BY <1>5, EntryStays DEF BindInv, EntryHolds
<1> QED BY <1>4, <1>6, <1>7 DEF BindInv

\* A step of a probe succeeds: the entry is taken when what its callbacks use
\* is there.
LEMMA TakeKeeps == ASSUME BindInv, Take PROVE BindInv'
<1>1. TablesFit /\ Takes' = Takes /\ Memory' = Memory /\ \A n : Before(n)' = Before(n)
  BY TablesAllFit, TablesStay DEF BindInv, TypeOK, Take
<1>2. Len(Takes) \in Nat
  BY <1>1, LenProperties DEF TablesFit
<1>3. next \in 1..Len(Takes) /\ held = Before(next) /\ at = "taking" /\ ~closing
  BY <1>2 DEF Take, BindInv, PhaseHolds, EntryHolds, TypeOK
<1>4. /\ UNCHANGED <<layer, at, closing, pc, todo>> /\ next' = next + 1
      /\ held' = IF Takes[next] \in Checks THEN held ELSE held \cup {Takes[next]}
  BY DEF Take
<1>5. held' = Before(next + 1) /\ next + 1 \in 1..(Len(Takes) + 1)
  <2>1. Before(next + 1)
            = IF Takes[next] \in Checks THEN Before(next) ELSE Before(next) \cup {Takes[next]}
    BY <1>1, <1>3, OneMore
  <2>2. held' = Before(next + 1)
    BY <1>3, <1>4, <2>1
  <2> QED BY <1>2, <1>3, <2>2
<1>6. PhaseHolds'
  BY <1>1, <1>3, <1>4, <1>5 DEF PhaseHolds
<1>7. TypeOK'
  BY <1>4, <1>5 DEF BindInv, TypeOK, Before
<1>8. "entry" \in held' => Memory \subseteq held'
  <2>1. CASE "entry" \in held
    BY <1>4, <2>1 DEF BindInv, EntryHolds
  <2>2. CASE Takes[next] = "entry"
    BY <1>1, <1>3, <1>4, <2>2 DEF TablesFit
  <2> QED BY <1>4, <2>1, <2>2
<1>9. EntryHolds'
  BY <1>1, <1>3, <1>4, <1>8 DEF BindInv, EntryHolds, Inside
<1> QED BY <1>6, <1>7, <1>9 DEF BindInv

\* A step of a probe fails, or remove begins: the lists fit what is held.
LEMMA TurnKeeps == ASSUME BindInv, TakeFails \/ Remove PROVE BindInv'
<1>1. TablesFit /\ Takes' = Takes /\ \A n : Before(n)' = Before(n)
      /\ Managed' = Managed /\ Memory' = Memory /\ OnBus' = OnBus
  BY TablesAllFit, TablesStay DEF BindInv, TypeOK, TakeFails, Remove
<1>2. Len(Takes) \in Nat
  BY <1>1, LenProperties DEF TablesFit
<1>3. /\ UNCHANGED <<layer, held, closing, pc>> /\ at' = "giving" /\ next' \in Nat
      /\ GivesBack(todo', held)
  <2>1. CASE TakeFails
    <3>1. next \in 1..Len(Takes) /\ held = Before(next)
      BY <1>2, <2>1 DEF TakeFails, BindInv, PhaseHolds, TypeOK
    <3> QED BY <1>1, <2>1, <3>1 DEF TakeFails, TablesFit
  <2>2. CASE Remove
    BY <1>1, <2>2 DEF Remove, TablesFit, BindInv, PhaseHolds, TypeOK
  <2> QED BY <2>1, <2>2
<1>4. PhaseHolds'
  BY <1>1, <1>3 DEF PhaseHolds, GivesBack
<1>5. TypeOK'
  BY <1>3 DEF BindInv, TypeOK, GivesBack
<1>6. EntryHolds'
  BY <1>3, EntryStays
<1> QED BY <1>4, <1>5, <1>6 DEF BindInv

\* The probe is through, the driver's part of the removal is, the entry closes.
LEMMA QuietKeeps == ASSUME BindInv, Bound \/ DriverDone \/ CloseEntry PROVE BindInv'
<1>1. TablesFit /\ Takes' = Takes /\ \A n : Before(n)' = Before(n)
      /\ Managed' = Managed /\ Memory' = Memory /\ OnBus' = OnBus
  BY TablesAllFit, TablesStay DEF BindInv, TypeOK, Bound, DriverDone, CloseEntry
<1>2. Len(Takes) \in Nat
  BY <1>1, LenProperties DEF TablesFit
<1>3. CASE Bound
  <2>1. next = Len(Takes) + 1 /\ held = Before(next)
    BY <1>2, <1>3 DEF Bound, BindInv, PhaseHolds, TypeOK
  <2>2. PhaseHolds'
    BY <1>1, <1>3, <2>1 DEF Bound, PhaseHolds
  <2>3. TypeOK'
    BY <1>3 DEF Bound, BindInv, TypeOK
  <2>4. EntryHolds'
    BY <1>3, EntryStays DEF Bound, BindInv, EntryHolds
  <2> QED BY <2>2, <2>3, <2>4 DEF BindInv
<1>4. CASE DriverDone
  <2>1. UNCHANGED <<layer, next, todo, held, closing, pc>> /\ at' = "devres"
        /\ GivesBack(<<>>, held)
    BY <1>4 DEF DriverDone, BindInv, PhaseHolds
  <2>2. PhaseHolds'
    BY <1>1, <2>1 DEF PhaseHolds, GivesBack
  <2>3. TypeOK'
    BY <2>1 DEF BindInv, TypeOK
  <2>4. EntryHolds'
    BY <2>1, EntryStays
  <2> QED BY <2>2, <2>3, <2>4 DEF BindInv
<1>5. CASE CloseEntry
  <2>1. /\ UNCHANGED <<layer, at, next, todo, held, pc>> /\ closing' = TRUE
        /\ at \in {"giving", "devres"}
    BY <1>5 DEF CloseEntry, Going
  <2>2. "entry" \in held
    <3>1. CASE at = "giving" /\ todo # <<>> /\ Head(todo) = "entry"
      <4>1. GivesBack(todo, held) /\ held \subseteq Things
        BY <3>1 DEF BindInv, PhaseHolds, TypeOK
      <4>2. Head(todo) \in held
        BY <3>1, <4>1, HeadGoes
      <4> QED BY <3>1, <4>2
    <3>2. CASE Youngest("entry")
      BY <3>2 DEF Youngest
    <3> QED BY <1>5, <3>1, <3>2 DEF CloseEntry, Going
  <2>3. PhaseHolds'
    BY <1>1, <2>1 DEF BindInv, PhaseHolds, GivesBack
  <2>4. TypeOK'
    BY <2>1 DEF BindInv, TypeOK
  <2>5. EntryHolds'
    BY <1>1, <2>1, <2>2 DEF BindInv, EntryHolds, Inside
  <2> QED BY <2>3, <2>4, <2>5 DEF BindInv
<1> QED BY <1>3, <1>4, <1>5

\* The youngest managed thing goes: not what the callbacks of an entry that is
\* still there use, which is older.
LEMMA YoungestGoes ==
    ASSUME BindInv, at = "devres", NEW x, Youngest(x)
    PROVE  /\ x \in held /\ GivesBack(<<>>, Without(x)) /\ OnBus
           /\ "entry" \in held /\ x # "entry" => x \notin Memory
<1>1. TablesFit /\ held \subseteq Things /\ GivesBack(<<>>, held)
  BY TablesAllFit DEF BindInv, TypeOK, PhaseHolds
<1>2. x \in held /\ x \in Managed /\ OnBus
  BY DEF Youngest, Managed
<1>3. GivesBack(<<>>, Without(x))
  BY <1>1, EmptySeq DEF GivesBack, Without
<1>4. ASSUME "entry" \in held, x # "entry", x \in Memory PROVE FALSE
  <2>1. "entry" \in Managed
    BY <1>2 DEF Managed
  <2>2. Place("entry") <= Place(x)
    BY <1>4, <2>1 DEF Youngest
  <2>3. Place(x) \in Nat /\ Place("entry") \in Nat /\ Place(x) < Place("entry")
    BY <1>1, <1>2, <1>4 DEF TablesFit
  <2> QED BY <2>2, <2>3
<1> QED BY <1>2, <1>3, <1>4

\* A thing is given back, by the driver or by devres.
LEMMA GiveBackKeeps ==
    ASSUME BindInv, NEW x \in Things, GiveBack(x)
    PROVE  BindInv'
<1>1. Managed' = Managed /\ Memory' = Memory /\ OnBus' = OnBus
  BY TablesStay DEF GiveBack
<1>2. /\ UNCHANGED <<layer, at, next, pc>> /\ held' = Without(x)
      /\ closing' = (closing /\ x # "entry") /\ at \in {"giving", "devres"}
      /\ x = "entry" => Inside = {}
  BY DEF GiveBack, Going
<1>3. held \subseteq Things /\ todo \in Seq(Things)
  BY DEF BindInv, TypeOK
<1>4. /\ x \in held
      /\ "entry" \in held /\ x # "entry" => x \notin Memory
      /\ "entry" \in held /\ x # "entry" => "entry" \in held'
      /\ \A y \in held : y # x /\ y # "privptr" => y \in held'
      /\ todo' \in Seq(Things)
      /\ PhaseHolds'
  <2>1. CASE at = "giving"
    <3>1. todo # <<>> /\ x = Head(todo) /\ todo' = Tail(todo) /\ GivesBack(todo, held)
      BY <2>1 DEF GiveBack, Going, BindInv, PhaseHolds
    <3>2. /\ x \in held /\ x # "dev" /\ GivesBack(Tail(todo), held \ {x})
          /\ "entry" \in held /\ x # "entry" => x \notin Memory
      BY <1>3, <3>1, HeadGoes
    <3>3. held' = held \ {x}
      BY <1>2, <3>2 DEF Without
    <3>4. GivesBack(todo, held)'
      BY <1>1, <3>1, <3>2, <3>3 DEF GivesBack
    <3>5. PhaseHolds'
      BY <1>2, <2>1, <3>4 DEF PhaseHolds
    <3>6. todo' \in Seq(Things)
      BY <3>1, <3>2 DEF GivesBack
    <3> QED BY <3>2, <3>3, <3>5, <3>6
  <2>2. CASE at = "devres"
    <3>1. Youngest(x) /\ todo' = todo
      BY <2>2 DEF GiveBack, Going
    <3>2. /\ x \in held /\ GivesBack(<<>>, Without(x))
          /\ "entry" \in held /\ x # "entry" => x \notin Memory
      BY <2>2, <3>1, YoungestGoes
    <3>3. GivesBack(<<>>, held)'
      BY <1>1, <1>2, <3>2 DEF GivesBack
    <3>4. PhaseHolds'
      BY <1>2, <2>2, <3>3 DEF PhaseHolds
    <3>5. \A y \in held : y # x /\ y # "privptr" => y \in held'
      BY <1>2 DEF Without
    <3> QED BY <1>3, <3>1, <3>2, <3>4, <3>5
  <2> QED BY <1>2, <2>1, <2>2
<1>5. TypeOK'
  <2>1. held' \subseteq Things /\ closing' \in BOOLEAN
    BY <1>2, <1>3 DEF Without
  <2> QED BY <1>2, <1>4, <2>1 DEF BindInv, TypeOK
<1>6. EntryHolds'
  <2>1. "entry" \in held' => "entry" \in held /\ x # "entry"
    BY <1>2 DEF Without
  <2>2. closing' => at' \in {"giving", "devres"} /\ "entry" \in held'
    BY <1>2, <1>4 DEF BindInv, EntryHolds
  <2>3. "entry" \in held' => Memory' \subseteq held'
    <3>1. \A y \in Memory : y # "privptr"
      BY DEF Memory, Pointers
    <3> QED BY <1>1, <1>4, <2>1, <3>1 DEF BindInv, EntryHolds
  <2>4. Inside' # {} => "entry" \in held'
    BY <1>2, <1>4 DEF BindInv, EntryHolds, Inside
  <2> QED BY <2>2, <2>3, <2>4 DEF EntryHolds
<1> QED BY <1>4, <1>5, <1>6 DEF BindInv

\* Devres is through: the drvdata is all that was left.
LEMMA DetachKeeps == ASSUME BindInv, Detach PROVE BindInv'
<1>1. /\ GivesBack(<<>>, held) /\ at = "devres" /\ held \cap Managed = {}
      /\ UNCHANGED <<layer, next, todo, closing, pc>> /\ at' = "unbound"
      /\ held' = IF OnBus THEN held \ {"drvdata"} ELSE held
  BY DEF Detach, BindInv, PhaseHolds
<1>2. \A x \in held : OnBus /\ x \in Pointers
  <2>1. \A j \in 1..Len(<<>>) : FALSE
    BY EmptySeq
  <2> QED BY <1>1, <2>1 DEF GivesBack
<1>3. "privptr" \notin held /\ "entry" \notin held
  <2>1. "privptr" \in held => "dev" \in held
    BY <1>1 DEF GivesBack
  <2> QED BY <1>2, <2>1 DEF Pointers
<1>4. held' = {}
  BY <1>1, <1>2, <1>3 DEF Pointers
<1>5. PhaseHolds' /\ TypeOK'
  BY <1>1, <1>4 DEF PhaseHolds, BindInv, TypeOK
<1>6. EntryHolds'
  BY <1>1, <1>3, <1>4 DEF BindInv, EntryHolds, Inside
<1> QED BY <1>5, <1>6 DEF BindInv

\* A callback begins, goes on or ends.
LEMMA CallbackKeeps ==
    ASSUME BindInv, NEW t \in Thread, EnterCallback(t) \/ CallbackStep(t)
    PROVE  BindInv'
<1>1. /\ UNCHANGED <<layer, at, next, todo, held, closing>>
      /\ \E n \in {0, 1, pc[t] + 1} : pc' = [pc EXCEPT ![t] = n]
      /\ pc[t] # 0 \/ "entry" \in held
  <2>1. CASE EnterCallback(t)
    BY <2>1 DEF EnterCallback, bindVars
  <2>2. CASE Look(t)
    <3>1. pc[t] # 0
      <4>1. Walk \in Seq(Things)
        BY TablesAllFit DEF BindInv, TypeOK, TablesFit
      <4>2. DOMAIN Walk = 1..Len(Walk)
        BY <4>1, LenProperties
      <4> QED BY <2>2, <4>2 DEF Look
    <3> QED BY <2>2, <3>1 DEF Look, bindVars
  <2>3. CASE LeaveCallback(t)
    BY <2>3 DEF LeaveCallback, bindVars
  <2> QED BY <2>1, <2>2, <2>3 DEF CallbackStep
<1>2. TypeOK'
  <2>1. pc[t] \in Nat /\ pc \in [Thread -> Nat]
    BY DEF BindInv, TypeOK
  <2>2. pc' \in [Thread -> Nat]
    BY <1>1, <2>1
  <2> QED BY <1>1, <2>2 DEF BindInv, TypeOK
<1>3. PhaseHolds'
  BY <1>1, TablesStay DEF BindInv, PhaseHolds, GivesBack
<1>4. "entry" \in held
  BY <1>1 DEF BindInv, EntryHolds, Inside
<1>5. EntryHolds'
  BY <1>1, <1>4, TablesStay DEF BindInv, EntryHolds
<1> QED BY <1>2, <1>3, <1>5 DEF BindInv

\* Each step of the driver core, of the module and of a callback.
LEMMA BindNext == BindInv /\ [Next]_vars => BindInv'
<1>1. ASSUME BindInv, UNCHANGED vars PROVE BindInv'
  <2>1. UNCHANGED <<layer, at, next, todo, held, closing, pc>>
    BY <1>1 DEF vars, bindVars
  <2>2. PhaseHolds' /\ EntryHolds'
    BY <1>1, <2>1, TablesStay DEF BindInv, PhaseHolds, GivesBack, EntryHolds, Inside
  <2> QED BY <1>1, <2>1, <2>2 DEF BindInv, TypeOK
<1> QED
  BY <1>1, ProbeKeeps, TakeKeeps, TurnKeeps, QuietKeeps, GiveBackKeeps, DetachKeeps,
     CallbackKeeps DEF Next, BindStep

-----------------------------------------------------------------------------
(* The properties *)

\* Whichever layer is loaded, whichever steps of its probes fail.
THEOREM BindInvariant == Spec => []BindInv
<1> QED BY BindInit, BindNext, PTL DEF Spec

\* In every layer, sysfs attributes, network, uart and iio operations and the
\* interrupt handler find the memory they use, whenever the device is removed.
THEOREM BindCallbackFindsMemory == Spec => []CallbackFindsMemory
<1>1. ASSUME BindInv PROVE CallbackFindsMemory
  <2>1. SUFFICES ASSUME NEW t \in Inside, NEW i \in DOMAIN Walk, Walk[i] \notin Pointers
                 PROVE  Walk[i] \in held
    BY DEF CallbackFindsMemory
  <2>2. Walk \in Seq(Things)
    BY <1>1, TablesAllFit DEF BindInv, TypeOK, TablesFit
  <2>3. i \in 1..Len(Walk)
    BY <2>2, LenProperties
  <2>4. Walk[i] \in Memory
    BY <2>1, <2>2, <2>3, ElementOfSeq DEF Memory
  <2> QED BY <1>1, <2>1, <2>4 DEF BindInv, EntryHolds
<1> QED BY <1>1, BindInvariant, PTL

\* Every error path of the eleven probes, and every removal, gives back what
\* was taken and nothing else.
THEOREM BindGivesBackExactly == Spec => []GivesBackExactly
<1>1. ASSUME BindInv PROVE GivesBackExactly
  <2>1. ASSUME NEW x \in Things, Going(x) PROVE x \in held
    <3>1. CASE at = "giving" /\ todo # <<>> /\ x = Head(todo)
      <4>1. GivesBack(todo, held) /\ held \subseteq Things
        BY <1>1, <3>1 DEF BindInv, PhaseHolds, TypeOK
      <4> QED BY <3>1, <4>1, HeadGoes
    <3>2. CASE Youngest(x)
      BY <3>2 DEF Youngest
    <3> QED BY <2>1, <3>1, <3>2 DEF Going
  <2> QED BY <1>1, <2>1 DEF GivesBackExactly, BindInv, PhaseHolds
<1> QED BY <1>1, BindInvariant, PTL

\* The entry lives as a device does (NvCharLife): callbacks get in only while
\* it is live, and it is gone when the last one is out.
LEMMA BindStepIsLife ==
    ASSUME BindInv, BindInv', [Next]_vars
    PROVE  [Life!Next]_(Life!lifeVars)
<1> SUFFICES Life!Next \/ UNCHANGED <<entryPhase, Inside>>
  BY DEF Life!lifeVars
<1>1. ASSUME UNCHANGED <<held, closing, pc>> PROVE UNCHANGED <<entryPhase, Inside>>
  BY <1>1 DEF entryPhase, Inside
<1>2. CASE Probe \/ Remove \/ TakeFails \/ Bound \/ DriverDone \/ UNCHANGED vars
  BY <1>1, <1>2 DEF Probe, Remove, TakeFails, Bound, DriverDone, vars, bindVars
<1>3. CASE Take
  <2>1. UNCHANGED <<closing, pc>> /\ held \subseteq held' /\ ~closing
    BY <1>3 DEF Take, BindInv, EntryHolds
  <2>2. Inside' = Inside
    BY <2>1 DEF Inside
  <2>3. CASE "entry" \notin held /\ "entry" \in held'
    BY <2>1, <2>2, <2>3 DEF entryPhase, Life!Next, Life!GoLive
  <2>4. CASE "entry" \in held \/ "entry" \notin held'
    BY <2>1, <2>2, <2>4 DEF entryPhase
  <2> QED BY <2>3, <2>4
<1>4. CASE CloseEntry
  <2>1. UNCHANGED <<held, pc>> /\ ~closing /\ closing' = TRUE /\ "entry" \in held'
    BY <1>4 DEF CloseEntry, BindInv, EntryHolds
  <2>2. Inside' = Inside /\ entryPhase = "live" /\ entryPhase' = "closing"
    BY <2>1 DEF Inside, entryPhase
  <2> QED BY <2>2 DEF Life!Next, Life!BeginClose
<1>5. ASSUME NEW x \in Things, GiveBack(x) PROVE Life!Next \/ UNCHANGED <<entryPhase,
     Inside>>
  <2>1. /\ pc' = pc /\ held' = Without(x) /\ closing' = (closing /\ x # "entry")
        /\ x = "entry" => closing /\ Inside = {}
    BY <1>5 DEF GiveBack
  <2>2. Inside' = Inside
    BY <2>1 DEF Inside
  <2>3. CASE x = "entry"
    <3>1. "entry" \in held /\ "entry" \notin held' /\ closing /\ Inside = {}
      BY <2>1, <2>3 DEF BindInv, EntryHolds, Without
    <3>2. entryPhase = "closing" /\ entryPhase' = "dead"
      BY <3>1 DEF entryPhase
    <3> QED BY <2>2, <3>1, <3>2 DEF Life!Next, Life!Finish
  <2>4. CASE x # "entry"
    <3>1. closing' = closing /\ ("entry" \in held' <=> "entry" \in held)
      BY <2>1, <2>4 DEF Without, BindInv, TypeOK
    <3> QED BY <2>2, <3>1 DEF entryPhase
  <2> QED BY <2>3, <2>4
<1>6. CASE Detach
  <2>1. UNCHANGED <<closing, pc>> /\ ("entry" \in held' <=> "entry" \in held)
    BY <1>6 DEF Detach
  <2> QED BY <2>1 DEF entryPhase, Inside
<1>7. ASSUME NEW t \in Thread, EnterCallback(t) \/ CallbackStep(t)
      PROVE  Life!Next \/ UNCHANGED <<entryPhase, Inside>>
  <2>1. UNCHANGED <<held, closing>> /\ entryPhase' = entryPhase
    BY <1>7 DEF EnterCallback, CallbackStep, Look, LeaveCallback, bindVars, entryPhase
  <2>2. pc \in [Thread -> Nat]
    BY DEF BindInv, TypeOK
  <2>3. CASE EnterCallback(t)
    <3>1. pc[t] = 0 /\ pc' = [pc EXCEPT ![t] = 1] /\ entryPhase = "live"
      BY <2>3 DEF EnterCallback, entryPhase
    <3>2. t \notin Inside /\ Inside' = Inside \cup {t}
      BY <2>2, <3>1 DEF Inside
    <3> QED BY <2>1, <3>1, <3>2 DEF Life!Next, Life!Acquire
  <2>4. CASE Look(t)
    <3>1. pc' = [pc EXCEPT ![t] = pc[t] + 1] /\ pc[t] \in DOMAIN Walk
      BY <2>4 DEF Look
    <3>2. pc[t] # 0
      <4>1. Walk \in Seq(Things)
        BY TablesAllFit DEF BindInv, TypeOK, TablesFit
      <4>2. DOMAIN Walk = 1..Len(Walk)
        BY <4>1, LenProperties
      <4> QED BY <3>1, <4>2
    <3>3. pc[t] + 1 # 0
      BY <2>2
    <3>4. Inside' = Inside
      BY <2>2, <3>1, <3>2, <3>3 DEF Inside
    <3> QED BY <2>1, <3>4
  <2>5. CASE LeaveCallback(t)
    <3>1. pc[t] # 0 /\ pc' = [pc EXCEPT ![t] = 0]
      BY <2>5 DEF LeaveCallback
    <3>2. t \in Inside /\ Inside' = Inside \ {t}
      BY <2>2, <3>1 DEF Inside
    <3> QED BY <2>1, <3>2 DEF Life!Next, Life!Release
  <2> QED BY <1>7, <2>3, <2>4, <2>5 DEF CallbackStep
<1> QED BY <1>2, <1>3, <1>4, <1>5, <1>6, <1>7 DEF Next, BindStep

\* What net, can, pwm, iio, uart, sysfs and an interrupt do with an entry is
\* what nv_char does with a device.
THEOREM BindImplementsLife == Spec => ImplementsLife
<1>1. Init => Life!Init
  BY DEF Init, Life!Init, entryPhase, Inside
<1> QED BY <1>1, BindStepIsLife, BindInvariant, PTL DEF Spec, ImplementsLife, Life!Spec

=============================================================================
