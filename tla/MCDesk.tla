------------------------------- MODULE MCDesk -------------------------------
(***************************************************************************)
(* The parts of a logged-in agent that share no state with one another,    *)
(* checked side by side: focus picks, once and for all, the part that      *)
(* moves, and the others stay in one of their initial states.              *)
(***************************************************************************)
EXTENDS SocketChannel, DevicePin, Location, TicketChat, BlockedSites, SoftwareInstall,
        TicketTable, ServiceLife

VARIABLE focus

deskVars == <<focus, channelVars, pinVars, locationVars, chatVars, sitesVars, installVars, tableVars, lifeVars>>

DeskInit ==
  /\ focus \in {"channel", "pin", "location", "chat", "sites", "install", "table", "life"}
  /\ ChannelInit /\ PinInit /\ LocationInit /\ ChatInit /\ SitesInit /\ InstallInit
  /\ TableInit /\ LifeInit
  /\ focus # "channel"  => ~reachable
  /\ focus # "pin"      => pin = 0 /\ usb = "locked"
  /\ focus # "location" => booted = 0 /\ ~googleKey
  /\ focus # "chat"     => started
  /\ focus # "sites"    => ~file.open

DeskNext ==
  \/ /\ focus = "channel" /\ ChannelNext
     /\ UNCHANGED <<focus, pinVars, locationVars, chatVars, sitesVars, installVars, tableVars, lifeVars>>
  \/ /\ focus = "pin" /\ PinNext
     /\ UNCHANGED <<focus, channelVars, locationVars, chatVars, sitesVars, installVars, tableVars, lifeVars>>
  \/ /\ focus = "location" /\ LocationNext
     /\ UNCHANGED <<focus, channelVars, pinVars, chatVars, sitesVars, installVars, tableVars, lifeVars>>
  \/ /\ focus = "chat" /\ ChatNext
     /\ UNCHANGED <<focus, channelVars, pinVars, locationVars, sitesVars, installVars, tableVars, lifeVars>>
  \/ /\ focus = "sites" /\ SitesNext
     /\ UNCHANGED <<focus, channelVars, pinVars, locationVars, chatVars, installVars, tableVars, lifeVars>>
  \/ /\ focus = "install" /\ InstallNext
     /\ UNCHANGED <<focus, channelVars, pinVars, locationVars, chatVars, sitesVars, tableVars, lifeVars>>
  \/ /\ focus = "table" /\ TableNext
     /\ UNCHANGED <<focus, channelVars, pinVars, locationVars, chatVars, sitesVars, installVars, lifeVars>>
  \/ /\ focus = "life" /\ LifeNext
     /\ UNCHANGED <<focus, channelVars, pinVars, locationVars, chatVars, sitesVars, installVars, tableVars>>

\* The fairness of the part that moves; nothing is asked of the others.
DeskFairness ==
  /\ WF_channelVars(focus = "channel" /\ SocketStep)
  /\ \A h \in Handler : WF_channelVars(focus = "channel" /\ HandlerStep(h))
  /\ \A c \in Command : WF_installVars(focus = "install" /\ CommandStep(c))
  /\ \A w \in Loader : WF_tableVars(focus = "table" /\ LoaderStep(w))
  /\ WF_tableVars(focus = "table" /\ Drains)
  /\ WF_lifeVars(focus = "life" /\ MainGoesOn)
  /\ WF_lifeVars(focus = "life" /\ WorkerEnds)
  /\ WF_lifeVars(focus = "life" /\ TimerExits)

DeskSpec == DeskInit /\ [][DeskNext]_deskVars /\ DeskFairness

-----------------------------------------------------------------------------

\* Each part's variables stay in their sets.
TypeOK ==
  ChannelTypeOK /\ PinTypeOK /\ LocationTypeOK /\ ChatTypeOK /\ SitesTypeOK /\ InstallTypeOK
  /\ TableTypeOK /\ LifeTypeOK
=============================================================================
