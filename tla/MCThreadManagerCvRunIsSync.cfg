CONSTANT SpuriousRunWakeups = {TRUE}
SPECIFICATION Spec
PROPERTY RunIsSync
