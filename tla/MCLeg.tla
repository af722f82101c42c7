-------------------------------- MODULE MCLeg --------------------------------
(***************************************************************************)
(* What serves one leg of a session besides the actor's own life cycle:    *)
(* input on its way out (RemoteInput, Pixels), the timers of a live leg    *)
(* (LegTimers) and the frame acknowledgements (FrameAcks), instantiated    *)
(* for TLC.  They share no state, so one of them moves in a behaviour and  *)
(* the others rest: interleaving them would add nothing.                   *)
(***************************************************************************)
EXTENDS RemoteInput, Pixels, LegTimers, FrameAcks

VARIABLE part   \* the component that moves

MCKeys == {"ANSI_N"}
MCUsers == {[mods |-> {"RightShift", "LeftCommand"}, buttons |-> {}],
            [mods |-> {"LeftCommand", "RightCommand"}, buttons |-> {}],
            [mods |-> {"LeftCommand"}, buttons |-> {"Left"}]}
MCPrefs == {[cmd_as |-> "Super", mac_layout |-> TRUE], [cmd_as |-> "Ctrl", mac_layout |-> FALSE]}

MCLayoutProbes == [width : 0 .. 15, height : {0, 3, 4, 5, 7, 8, 11, 12, 15}, max_area : {0, 16, 17, 25, 40, 63, 90, 130},
                   err : {<<0, 0>>, <<1, 1>>, <<-1, 1>>, <<1, -1>>}]
MCSizes == [width : 1 .. 7, height : 1 .. 7]
MCPlacementProbes == [desktop : MCSizes, drawable : MCSizes]
\* Half points, scaled down with the constants of present.rs and frames.rs.
MCTemplate == [width |-> 8, height |-> 6, min_width |-> 4, min_height |-> 3]
MCThumbnail == [width |-> 5, height |-> 3]
MCSurfaces == {"Webview", "Overlay", "Remote", "Banner", "Stats"}
MCWindowProbes == [window : [width : 2 .. 14, height : 2 .. 12], surface : MCSurfaces, full_screen : BOOLEAN]
MCScreens == {[x |-> 0, y |-> 1, width |-> 12, height |-> 9], [x |-> 12, y |-> -2, width |-> 6, height |-> 5],
              [x |-> -7, y |-> 0, width |-> 7, height |-> 8]}
MCFrameProbes == [saved : {<<>>} \cup {<<f>> : f \in [x : {-9, -3, 0, 5, 10, 16}, y : {-5, -1, 2, 7}, width : {3, 4, 9}, height : {2, 3, 7}]},
                  screens : {<<>>} \cup {<<s>> : s \in MCScreens} \cup {<<s, t>> : s \in MCScreens, t \in MCScreens},
                  cascade : 0 .. 2]
MCPreviewProbes == [width : 1 .. 17, height : 1 .. 11]
MCScrollDeltas == {-9, -3, -1, 0, 1, 2, 5, 30}

MCViews == {[width |-> 11, height |-> 13, hidpi |-> TRUE], [width |-> 30, height |-> 7, hidpi |-> FALSE]}
MCProfiles == {[mode |-> "RemoteLogin", adaptive |-> TRUE, retina |-> TRUE, password |-> TRUE],
               [mode |-> "Headless", adaptive |-> TRUE, retina |-> FALSE, password |-> TRUE],
               [mode |-> "DesktopSharing", adaptive |-> TRUE, retina |-> TRUE, password |-> FALSE]}

-----------------------------------------------------------------------------
\* One state of each component to rest in.
InputRests == InputInit /\ user = CHOOSE u \in Users : TRUE
PixelsRest == PixelInit /\ probe = CHOOSE p \in PreviewProbes : TRUE
TimersRest == LegInit /\ profile = CHOOSE p \in Profiles : TRUE

MCInit ==
  \/ part = "input" /\ InputInit /\ PixelsRest /\ TimersRest /\ Init
  \/ part = "pixels" /\ InputRests /\ PixelInit /\ TimersRest /\ Init
  \/ part = "timers" /\ InputRests /\ PixelsRest /\ LegInit /\ Init
  \/ part = "acks" /\ InputRests /\ PixelsRest /\ TimersRest /\ Init

MCNext ==
  /\ UNCHANGED part
  /\ \/ part = "input" /\ InputNext /\ UNCHANGED <<pixelVars, timerVars, vars>>
     \/ part = "pixels" /\ PixelNext /\ UNCHANGED <<inputVars, timerVars, vars>>
     \/ part = "timers" /\ LegNext /\ UNCHANGED <<inputVars, pixelVars, vars>>
     \/ part = "acks" /\ Next /\ UNCHANGED <<inputVars, pixelVars, timerVars>>

MCSpec ==
  /\ MCInit
  /\ [][MCNext]_<<part, inputVars, pixelVars, timerVars, vars>>
  /\ part = "acks" => Fairness
=============================================================================
