----------------------------- MODULE AdcDriver -----------------------------
(* The static driver of the analog converter.                              *)
EXTENDS Board

\* mutant: the wait for the channel comes before its analog part is enabled
DRV_ADC_InitializeWaitFirst ==
  Write("adcSource", 1, "none") \o Do("select") \o Do("select")
  \o Write("adcSource", 1, "software edge")
  \o IfExists("DEVADC0", Write("adcCalibrated", 1, TRUE))
  \o Write("adcOn", 1, TRUE)
  \o Await("vref") \o Await("noFault") \o Await("channelReady") \o Write("adcAnalog", 1, TRUE)

DRV_ADC_Initialize ==
  Write("adcSource", 1, "none")                 \* PLIB_ADCHS_Setup, ..._ChannelSetup
  \o Do("select") \o Do("select")               \* trigger and sampling; input
  \o Write("adcSource", 1, "software edge")
  \o IfExists("DEVADC0", Write("adcCalibrated", 1, TRUE))
  \o Write("adcOn", 1, TRUE)
  \o Await("vref") \o Await("noFault")
  \o Write("adcAnalog", 1, TRUE)
  \o Await("channelReady")

DRV_ADC_DeInitialize == Write("adcOn", 1, FALSE)
DRV_ADC0_Open        == Write("adcDigital", 1, TRUE)
DRV_ADC0_Close       == Write("adcDigital", 1, FALSE)
DRV_ADC_Start        == Write("adcTrigger", 1, TRUE)
DRV_ADC_Stop         == Write("adcSampling", 1, FALSE)
DRV_ADC_SamplesAvailable == reg.adcData[1]
DRV_ADC_SamplesRead  == Write("adcData", 1, FALSE)   \* reading a result takes it
=============================================================================
