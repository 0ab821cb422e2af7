---------------------------- MODULE MCMsgHandler ----------------------------
(* Small instances of MsgHandler: a .cfg chooses Views among the views of  *)
(* ViewService/view.xml, and the other attributes follow from them.        *)
(* pepsnotfinda, a second serious warning, is in CfgFile/view.xml only.    *)
EXTENDS MsgHandler

\* loop="0s", repeat="ON", an audiobind, more than one extrainfo
XmlSerious   == Views \cap {"doorwarn", "pepsnotfinda"}
XmlRepeat    == Views \cap {"pepsnotfinda", "doorwarn", "parking", "pepsnotfindb",
                            "pepsbatterylow", "doorinfo", "tiresystemfault"}
XmlBound     == Views \ {"doorinfo", "WrongGear_P"}
XmlDoorViews == Views \cap {"doorwarn", "doorinfo"}

\* sent again without a change, see CoreSignals and DoorWarning
XmlResent == Views \cap {"doorwarn", "doorinfo", "tiresystemfault"}

XmlOrder == <<"pepsnotfinda", "doorwarn", "speedlimit", "WrongGear_P", "parking",
              "oillow", "pepsnotfindb", "pepsbatterylow", "doorinfo", "tiresystemfault">>
XmlPriority == [v \in Views |-> CHOOSE i \in DOMAIN XmlOrder : XmlOrder[i] = v]

XmlPower == [v \in Views |->
              IF v = "parking" THEN {"OFF"}
              ELSE IF v \in {"pepsnotfindb", "pepsbatterylow", "doorinfo"}
                   THEN {"ON", "OFF"} ELSE {"ON"}]
=============================================================================
