------------------------------- MODULE Parts -------------------------------
(***************************************************************************)
(* The parts that share no state: the service modules, discovery, the      *)
(* drivers on sockets and serial ports, the JK battery's settings and      *)
(* frames, the phantom modules and the watermarks, which share no more     *)
(* than the daemon's loop, the lists of its scheduler, and the terminal    *)
(* interface, a process of its own.  One of them runs in a behaviour; the  *)
(* others stand still.  What they have to do with one another is in        *)
(* Devices (slots, configuration and requests), JkHelper (drivers and      *)
(* their helper) and History (modules and the store).                      *)
(***************************************************************************)
EXTENDS Textbelt, Weather, Discover, ClassicDriver, XdDriver, MagnumFrame, MagnumDriver,
        Tui, JkSettings, JkAssembler, Phantom, PtList, Watermarks

CONSTANT Running   \* the parts of which one runs

ASSUME RunningAssumption ==
    Running \subseteq {"textbelt", "weather", "discover", "classic", "xd", "frame", "magnum",
                      "tui", "jk", "assembler", "phantom", "threads", "marks"}

VARIABLE part      \* the part that runs

vars == <<part, tb_vars, wx_vars, disc, cl_vars, xd_vars, fr, mg_vars, tui_vars, jk_vars,
          asm_vars, ph_vars, pts, wm_vars>>

----------------------------------------------------------------------------

\* A part that does not run, in one of the states it starts in.
TextbeltRests == tb = TbStart /\ log = <<>>
ClassicRests ==
    /\ cl = classic_open(CHOOSE i \in Intervals : TRUE, FALSE)
    /\ answers = 1 /\ cl_settled = FALSE
XdRests ==
    /\ conf = [path |-> CHOOSE p \in Paths : TRUE, serial |-> Nothing, by_id |-> Nothing,
               auto_port |-> FALSE]
    /\ xd = xd_open(conf) /\ wanted = Nothing
    /\ ports = [p \in Paths |-> Nothing] /\ xd_settled = FALSE
MagnumRests == mg = mag_open /\ port = "gone" /\ talking = {} /\ mg_settled = FALSE

Init ==
    /\ part \in Running
    /\ IF part = "textbelt" THEN TbInit ELSE TextbeltRests
    /\ IF part = "weather" THEN WxInit ELSE WxStart
    /\ DiscInit
    /\ IF part = "classic" THEN ClInit ELSE ClassicRests
    /\ IF part = "xd" THEN XdInit ELSE XdRests
    /\ FrInit
    /\ IF part = "magnum" THEN MgInit ELSE MagnumRests
    /\ TuiInit /\ JkInit /\ AsmInit
    /\ IF part = "phantom" THEN PhInit ELSE PhRests({})
    /\ PtInit
    /\ IF part = "marks" THEN WmInit ELSE WmRests(TRUE)

\* Only part p runs.
Only(p) ==
    /\ part = p /\ UNCHANGED part
    /\ p # "textbelt" => UNCHANGED tb_vars
    /\ p # "weather" => UNCHANGED wx_vars
    /\ p # "discover" => UNCHANGED disc
    /\ p # "classic" => UNCHANGED cl_vars
    /\ p # "xd" => UNCHANGED xd_vars
    /\ p # "frame" => UNCHANGED fr
    /\ p # "magnum" => UNCHANGED mg_vars
    /\ p # "tui" => UNCHANGED tui_vars
    /\ p # "jk" => UNCHANGED jk_vars
    /\ p # "assembler" => UNCHANGED asm_vars
    /\ p # "phantom" => UNCHANGED ph_vars
    /\ p # "threads" => UNCHANGED pts
    /\ p # "marks" => UNCHANGED wm_vars

Next ==
    \/ Only("textbelt") /\ TbNext
    \/ Only("weather") /\ WxNext
    \/ Only("discover") /\ DiscNext
    \/ Only("classic") /\ ClNext
    \/ Only("xd") /\ XdNext
    \/ Only("frame") /\ FrNext
    \/ Only("magnum") /\ MgNext
    \/ Only("tui") /\ TuiNext
    \/ Only("jk") /\ JkNext
    \/ Only("assembler") /\ AsmNext
    \/ Only("phantom") /\ PhNext
    \/ Only("threads") /\ PtNext
    \/ Only("marks") /\ WmNext

\* The loop steps the part that runs for ever; its clock goes on; a request that
\* it has under way ends.  Each part's own module says why.
PartSteps ==
    \/ part = "textbelt" /\ tb_step /\ Only("textbelt")
    \/ part = "discover" /\ mf_discover_step /\ Only("discover")
    \/ part = "classic" /\ classic_step /\ Only("classic")
    \/ part = "xd" /\ xd_step /\ Only("xd")
    \/ part = "magnum" /\ mag_step /\ Only("magnum")
    \/ part = "tui" /\ mf_tui_run /\ Only("tui")
    \/ part = "jk" /\ jk_pump /\ Only("jk")
    \/ part = "phantom" /\ ph_step /\ Only("phantom")
    \/ part = "threads" /\ WakeTurn /\ Only("threads")
    \/ part = "marks" /\ mf_history_watermark_slice /\ Only("marks")
TimePasses ==
    \/ part = "textbelt" /\ TbTick /\ Only("textbelt")
    \/ part = "weather" /\ WxTick /\ Only("weather")
    \/ part = "discover" /\ DiscTick /\ Only("discover")
    \/ part = "classic" /\ ClTick /\ Only("classic")
    \/ part = "xd" /\ XdTick /\ Only("xd")
    \/ part = "magnum" /\ MgTick /\ Only("magnum")
    \/ part = "tui" /\ TuiTick /\ Only("tui")
    \/ part = "jk" /\ JkTick /\ Only("jk")
    \/ part = "phantom" /\ PhTick /\ Only("phantom")
    \/ part = "marks" /\ WmTick /\ Only("marks")
AnswersCome ==
    \/ part = "textbelt" /\ TextRequestEnds /\ Only("textbelt")
    \/ part = "weather" /\ (WeatherEnds \/ ZctaEnds) /\ Only("weather")
    \/ part = "jk" /\ Battery /\ Only("jk")
    \/ part = "assembler" /\ AsmGood /\ Only("assembler")

\* What is tried again and again: a request of the weather module; protothread_run and
\* the end of a slice, however often pt_i_wake is called in between.
Returns ==
    \/ part = "weather" /\ StartNext(TRUE) /\ Only("weather")
    \/ part = "threads" /\ (protothread_run \/ SliceEnds) /\ Only("threads")

Fairness ==
    /\ WF_vars(PartSteps) /\ WF_vars(TimePasses) /\ WF_vars(AnswersCome)
    /\ SF_vars(Returns)

Spec == Init /\ [][Next]_vars /\ Fairness

----------------------------------------------------------------------------

\* Every part's variables have the values its module says.
TypeOK ==
    CASE part = "textbelt" -> TbTypeOK
      [] part = "weather"  -> WxTypeOK
      [] part = "discover" -> DiscTypeOK
      [] part = "classic"  -> ClTypeOK
      [] part = "xd"       -> XdTypeOK
      [] part = "frame"    -> FrTypeOK
      [] part = "magnum"   -> MgTypeOK
      [] part = "tui"      -> TuiTypeOK
      [] part = "jk"       -> JkTypeOK
      [] part = "assembler" -> AsmTypeOK
      [] part = "phantom"  -> PhTypeOK
      [] part = "threads"  -> PtTypeOK
      [] part = "marks"    -> WmTypeOK

UnderWay ==
    \/ part = "textbelt" /\ TextUnderWay
    \/ part = "discover" /\ JobUnderWay
    \/ part = "tui" /\ TuiUnderWay
    \/ part = "jk" /\ JkUnderWay
    \/ part = "threads" /\ PtReady
Over ==
    \/ part = "textbelt" /\ ~TextUnderWay
    \/ part = "discover" /\ disc.state # "running"
    \/ part = "tui" /\ ~TuiUnderWay
    \/ part = "jk" /\ ~JkUnderWay
    \/ part = "threads" /\ ~PtReady

\* What was accepted comes to an end: a text is sent or reported as failed
\* unless the key is removed (tb_step, finish_send), a discovery job that had
\* something to do ends and makes room (mf_discover_step, probe_step), a save or
\* an action of the settings form is answered or given up, whatever becomes of
\* the connection (mf_tui_run), the JK battery's registers that wait are
\* written or forgotten with the link (pump), and a thread that is ready gets its
\* slice, whatever the others do (protothread_run).
AcceptedEnds == UnderWay ~> Over

Answering ==
    \/ part = "weather" /\ WxLost
    \/ part = "classic" /\ ClAnswering
    \/ part = "xd" /\ XdAnswering
    \/ part = "magnum" /\ MgAnswering
    \/ part = "tui" /\ TuiAnswering
    \/ part = "jk" /\ JkAnswering
    \/ part = "assembler" /\ AsmAnswering
    \/ part = "phantom" /\ PhAnswering
    \/ part = "marks" /\ WmAnswering
IsRead ==
    \/ part = "weather" /\ Sought
    \/ part = "classic" /\ ClRead
    \/ part = "xd" /\ XdRead
    \/ part = "magnum" /\ MgRead
    \/ part = "tui" /\ TuiRead
    \/ part = "jk" /\ JkRead
    \/ part = "assembler" /\ AsmRead
    \/ part = "phantom" /\ PhRead
    \/ part = "marks" /\ WmRead

\* Whatever was lost before - connections, exchanges, adapters, stack roles,
\* notifications - a device that stays where the driver looks for it and answers
\* is read in the end (pump of the Classic, xd_step, mag_step,
\* jk_assembler_feed); what is shown of a JK battery's settings becomes what the
\* battery has, whatever was asked for, dropped or refused (jk_put_settings,
\* wq_push, pump); a phantom shows the average of the modules that are there
\* (ph_step); a watermark becomes what the file says
\* (mf_history_watermark_slice); for a ZIP code that the table does not have a
\* newer table is looked for unless that is switched off, and a forecast address
\* of another place gives way to the module's own (start_next); and a daemon that can be reached is shown on the
\* screen (mf_tui_run).
ReadsAgain == Answering ~> IsRead

\* What the framers pass on and keep does not depend on how the bytes were split
\* between reads or notifications, and no byte is lost or passed on twice
\* (mag_frame_feed and mag_frame_idle of the Magnum bus, jk_assembler_feed of the
\* JK battery while its buffer has not overflowed).
FramingExact ==
    /\ part = "frame" => Accounted /\ ChunksDoNotMatter
    /\ part = "assembler" => AsmAccounted /\ AsmChunksDoNotMatter
=============================================================================
